---- MODULE Spec2Model ----
(***************************************************************************)
(* A model of csv-api-processor: the row pipeline that turns each row of a *)
(* primary CSV table into a sequence of HTTP requests.  The repository     *)
(* holds several generations of the program; three of them have a          *)
(* multi-step pipeline, and they are modelled side by side with the first  *)
(* generation, which sends one request per row:                            *)
(*                                                                         *)
(*   "p0"  src/unnamed/part_000  processCSV, an async 'data' handler per   *)
(*         row, conditions, loop steps, interactive gating, failure log    *)
(*   "p1"  src/unnamed/part_001  processCSV (the 'requests' version,       *)
(*         lines 728-931), a sequential loop over the rows read so far     *)
(*   "p2"  src/unnamed/part_002  main/processRow                           *)
(*   "p3"  src/index.js          processCSV, one POST per row              *)
(*                                                                         *)
(* JavaScript values are tagged records; strings are TLA+ strings and are  *)
(* taken apart character by character where the code does so.              *)
(***************************************************************************)
EXTENDS Integers, Sequences, FiniteSets, TLC

(***************************************************************************)
(* JavaScript values.  Every value has the same three fields so that any   *)
(* two values can be compared: t is the result of typeof (with "null" and  *)
(* "NaN" told apart), s the text of a string or the identity of an object, *)
(* n the magnitude of a number or boolean.  Numbers are integers.          *)
(***************************************************************************)
Undef == [t |-> "undefined", s |-> "", n |-> 0]
Null == [t |-> "null", s |-> "", n |-> 0]
NaN == [t |-> "NaN", s |-> "", n |-> 0]
Str(x) == [t |-> "string", s |-> x, n |-> 0]
Num(k) == [t |-> "number", s |-> "", n |-> k]
Bool(b) == [t |-> "boolean", s |-> "", n |-> IF b THEN 1 ELSE 0]
Obj(id) == [t |-> "object", s |-> id, n |-> 0]

IsStr(v) == v.t = "string"
IsNum(v) == v.t = "number"
IsNullish(v) == v.t \in {"undefined", "null"}

(* obj[key] of a JavaScript object held as a function from its own keys.   *)
Get(obj, key) == IF key \in DOMAIN obj THEN obj[key] ELSE Undef

(* { ...a, ...b }: b's own keys (even those holding undefined) shadow a's. *)
Spread(a, b) ==
  [k \in (DOMAIN a) \cup (DOMAIN b) |-> IF k \in DOMAIN b THEN b[k] ELSE a[k]]

(* obj[key] = v *)
Put(obj, key, v) ==
  [k \in (DOMAIN obj) \cup {key} |-> IF k = key THEN v ELSE obj[k]]

EmptyObj == [k \in {} |-> Undef]

(***************************************************************************)
(* Characters and strings.                                                 *)
(***************************************************************************)
AsciiLow ==
  " !\"#$%&'()*+,-./0123456789:;<=>?@ABCDEFGHIJKLMNOPQRSTUVWXYZ[\\]^_"
AsciiHigh == "abcdefghijklmnopqrstuvwxyz{|}~"

Ch(s, i) == SubSeq(s, i, i)

(* The truthiness of a value. *)
Truthy(v) ==
  CASE v.t = "undefined" -> FALSE
    [] v.t = "null" -> FALSE
    [] v.t = "NaN" -> FALSE
    [] v.t = "string" -> v.s # ""
    [] v.t = "number" -> v.n # 0
    [] v.t = "boolean" -> v.n = 1
    [] OTHER -> TRUE

(* The UTF-16 code unit of a printable ASCII character (no backquote). *)
CharCode(c) ==
  IF \E i \in 1..Len(AsciiLow) : Ch(AsciiLow, i) = c
    THEN 31 + (CHOOSE i \in 1..Len(AsciiLow) : Ch(AsciiLow, i) = c)
  ELSE 96 + (CHOOSE i \in 1..Len(AsciiHigh) : Ch(AsciiHigh, i) = c)

Digits == {"0", "1", "2", "3", "4", "5", "6", "7", "8", "9"}
Letters ==
  {"a", "b", "c", "d", "e", "f", "g", "h", "i", "j", "k", "l", "m", "n", "o",
   "p", "q", "r", "s", "t", "u", "v", "w", "x", "y", "z", "A", "B", "C", "D",
   "E", "F", "G", "H", "I", "J", "K", "L", "M", "N", "O", "P", "Q", "R", "S",
   "T", "U", "V", "W", "X", "Y", "Z"}

IsDigit(c) == c \in Digits
(* [a-zA-Z0-9_] *)
IsWordChar(c) == c \in Letters \/ c \in Digits \/ c = "_"
DigitValue(c) == CHOOSE d \in 0..9 : Ch("0123456789", d + 1) = c

StartsWith(s, p) == Len(s) >= Len(p) /\ SubSeq(s, 1, Len(p)) = p
EndsWith(s, p) == Len(s) >= Len(p) /\ SubSeq(s, Len(s) - Len(p) + 1, Len(s)) = p
Substring(s, from) == SubSeq(s, from + 1, Len(s))
Includes(s, c) == \E i \in 1..Len(s) : Ch(s, i) = c

RECURSIVE Trim(_)
Trim(s) ==
  IF Len(s) > 0 /\ Ch(s, 1) = " " THEN Trim(SubSeq(s, 2, Len(s)))
  ELSE IF Len(s) > 0 /\ Ch(s, Len(s)) = " " THEN Trim(SubSeq(s, 1, Len(s) - 1))
  ELSE s

LowerCase == "abcdefghijklmnopqrstuvwxyz"
UpperCase == "ABCDEFGHIJKLMNOPQRSTUVWXYZ"

UpperChar(c) ==
  IF \E k \in 1..26 : Ch(LowerCase, k) = c
    THEN Ch(UpperCase, CHOOSE k \in 1..26 : Ch(LowerCase, k) = c)
  ELSE c

(* s.toUpperCase() *)
RECURSIVE toUpperCase(_)
toUpperCase(s) ==
  IF Len(s) = 0 THEN "" ELSE UpperChar(Ch(s, 1)) \o toUpperCase(SubSeq(s, 2, Len(s)))

(* s.toLowerCase() *)
LowerChar(c) ==
  IF \E k \in 1..26 : Ch(UpperCase, k) = c
    THEN Ch(LowerCase, CHOOSE k \in 1..26 : Ch(UpperCase, k) = c)
  ELSE c

RECURSIVE toLowerCase(_)
toLowerCase(s) ==
  IF Len(s) = 0 THEN "" ELSE LowerChar(Ch(s, 1)) \o toLowerCase(SubSeq(s, 2, Len(s)))

AllDigits(s) == Len(s) > 0 /\ \A i \in 1..Len(s) : IsDigit(Ch(s, i))

RECURSIVE DigitsValue(_)
DigitsValue(s) ==
  IF Len(s) = 0 THEN 0
  ELSE 10 * DigitsValue(SubSeq(s, 1, Len(s) - 1)) + DigitValue(Ch(s, Len(s)))

RECURSIVE NatToString(_)
NatToString(k) ==
  IF k < 10 THEN Ch("0123456789", k + 1)
  ELSE NatToString(k \div 10) \o Ch("0123456789", (k % 10) + 1)

IntToString(k) == IF k < 0 THEN "-" \o NatToString(-k) ELSE NatToString(k)

(* s < t in code-unit order, as JavaScript compares two strings. *)
RECURSIVE StrLess(_, _)
StrLess(s, t) ==
  IF Len(t) = 0 THEN FALSE
  ELSE IF Len(s) = 0 THEN TRUE
  ELSE IF Ch(s, 1) = Ch(t, 1) THEN StrLess(SubSeq(s, 2, Len(s)), SubSeq(t, 2, Len(t)))
  ELSE CharCode(Ch(s, 1)) < CharCode(Ch(t, 1))

(***************************************************************************)
(* Number(v), restricted to the values of the model: a string is numeric   *)
(* when, trimmed, it is empty (0) or an optionally signed run of decimal   *)
(* digits; every other string is NaN.                                      *)
(***************************************************************************)
StringToNumber(s) ==
  LET u == Trim(s) IN
  IF u = "" THEN Num(0)
  ELSE IF AllDigits(u) THEN Num(DigitsValue(u))
  ELSE IF Len(u) > 1 /\ Ch(u, 1) = "-" /\ AllDigits(Substring(u, 1))
    THEN Num(0 - DigitsValue(Substring(u, 1)))
  ELSE IF Len(u) > 1 /\ Ch(u, 1) = "+" /\ AllDigits(Substring(u, 1))
    THEN Num(DigitsValue(Substring(u, 1)))
  ELSE NaN

ToNumber(v) ==
  CASE v.t = "number" -> v
    [] v.t = "NaN" -> NaN
    [] v.t = "undefined" -> NaN
    [] v.t = "null" -> Num(0)
    [] v.t = "boolean" -> Num(v.n)
    [] v.t = "string" -> StringToNumber(v.s)
    [] OTHER -> NaN

(* The global isNaN(v): Number(v) is NaN. *)
IsNaN(v) == ToNumber(v).t = "NaN"

(* String(v) *)
JsString(v) ==
  CASE v.t = "string" -> v.s
    [] v.t = "number" -> IntToString(v.n)
    [] v.t = "NaN" -> "NaN"
    [] v.t = "boolean" -> IF v.n = 1 THEN "true" ELSE "false"
    [] v.t = "null" -> "null"
    [] v.t = "undefined" -> "undefined"
    [] OTHER -> "[object Object]"

(* typeof v, with null told apart from the objects. *)
TypeOf(v) == IF v.t = "NaN" THEN "number" ELSE v.t

(* a === b *)
StrictEquals(a, b) == a.t # "NaN" /\ a = b

(* ToPrimitive of the model's objects: their String(). *)
ToPrimitive(v) == IF v.t = "object" THEN Str(JsString(v)) ELSE v

(* a == b, the abstract equality comparison. *)
RECURSIVE LooseEquals(_, _)
LooseEquals(a, b) ==
  IF TypeOf(a) = TypeOf(b) THEN StrictEquals(a, b)
  ELSE IF IsNullish(a) /\ IsNullish(b) THEN TRUE
  ELSE IF IsNullish(a) \/ IsNullish(b) THEN FALSE
  ELSE IF TypeOf(a) = "number" /\ TypeOf(b) = "string" THEN StrictEquals(a, ToNumber(b))
  ELSE IF TypeOf(a) = "string" /\ TypeOf(b) = "number" THEN StrictEquals(ToNumber(a), b)
  ELSE IF TypeOf(a) = "boolean" THEN LooseEquals(ToNumber(a), b)
  ELSE IF TypeOf(b) = "boolean" THEN LooseEquals(a, ToNumber(b))
  ELSE IF TypeOf(a) = "object" THEN LooseEquals(ToPrimitive(a), b)
  ELSE IF TypeOf(b) = "object" THEN LooseEquals(a, ToPrimitive(b))
  ELSE FALSE

(* a < b, the abstract relational comparison: "true", "false" or          *)
(* "undefined" (an operand that is NaN as a number).                       *)
LessThan(a, b) ==
  LET pa == ToPrimitive(a)
      pb == ToPrimitive(b)
  IN IF IsStr(pa) /\ IsStr(pb)
       THEN (IF StrLess(pa.s, pb.s) THEN "true" ELSE "false")
     ELSE IF IsNaN(pa) \/ IsNaN(pb) THEN "undefined"
     ELSE IF ToNumber(pa).n < ToNumber(pb).n THEN "true" ELSE "false"

JsLt(a, b) == LessThan(a, b) = "true"
JsGt(a, b) == LessThan(b, a) = "true"
JsLe(a, b) == LessThan(b, a) = "false"
JsGe(a, b) == LessThan(a, b) = "false"

(***************************************************************************)
(* Objects that arrive in response bodies.  A nested object is named by an *)
(* identity; Heap gives its own properties.                                *)
(***************************************************************************)
Heap(id) ==
  CASE id = "{id:42}" -> [id |-> Num(42)]
    [] id = "{data:{id:7}}" -> [data |-> Obj("{id:7}")]
    [] id = "{id:7}" -> [id |-> Num(7)]
    [] id = "{id:null}" -> [id |-> Null]
    [] OTHER -> EmptyObj

(* value[part] *)
Prop(value, part) ==
  IF value.t = "object" THEN Get(Heap(value.s), part) ELSE Undef

(* s.split('.') *)
RECURSIVE Split(_, _)
Split(s, sep) ==
  IF ~Includes(s, sep) THEN <<s>>
  ELSE LET i == CHOOSE k \in 1..Len(s) :
                  Ch(s, k) = sep /\ \A m \in 1..(k - 1) : Ch(s, m) # sep
       IN <<SubSeq(s, 1, i - 1)>> \o Split(SubSeq(s, i + 1, Len(s)), sep)

(***************************************************************************)
(* The request steps of a configuration.  A step is a record               *)
(*   name, method, endpoint        JavaScript values                       *)
(*   payloadTemplate               the string and literal leaves of the    *)
(*                                 template, by the path of each leaf      *)
(*   condition                     see below                               *)
(*   loopOver                      the step repeats per secondary row      *)
(*                                 (loopOver in part_000, loopCsv in       *)
(*                                 part_002)                               *)
(*   extractFromResponse           kind "none", "single" or "array", and   *)
(*                                 the {field, jsonPath} specs             *)
(* A condition is absent, or the part_000 form {type, left, operator,      *)
(* right}, or the part_002 form {field, operator, value}.                  *)
(***************************************************************************)
NoCondition ==
  [present |-> FALSE, type |-> "", left |-> Undef, operator |-> "",
   right |-> Undef, field |-> "", value |-> Undef]
Comparison(l, op, r) ==
  [present |-> TRUE, type |-> "comparison", left |-> l, operator |-> op,
   right |-> r, field |-> "", value |-> Undef]
FieldCondition(f, op, v) ==
  [present |-> TRUE, type |-> "", left |-> Undef, operator |-> op,
   right |-> Undef, field |-> f, value |-> v]

NoExtract == [kind |-> "none", specs |-> <<>>]
ExtractOne(f, path) ==
  [kind |-> "single", specs |-> <<[field |-> f, jsonPath |-> path]>>]
ExtractMany(specs) == [kind |-> "array", specs |-> specs]

(***************************************************************************)
(* evaluateCondition of part_000: a `$name` operand is looked up in the    *)
(* extracted data (the only context the function is given).                *)
(***************************************************************************)
(* Lines 267-272: the operand after its variable has been replaced. *)
OperandValue(x, extractedData) ==
  IF IsStr(x) /\ StartsWith(x.s, "$")
    THEN Get(extractedData, Substring(x.s, 1))
  ELSE x

(* Lines 275-276: converted to a number when that is possible. *)
Operand(x, extractedData) ==
  IF ~IsNaN(OperandValue(x, extractedData))
    THEN ToNumber(OperandValue(x, extractedData))
  ELSE OperandValue(x, extractedData)

CompareWith(operator, left, right) ==
  CASE operator = ">" -> JsGt(left, right)
    [] operator = ">=" -> JsGe(left, right)
    [] operator = "<" -> JsLt(left, right)
    [] operator = "<=" -> JsLe(left, right)
    [] operator = "==" -> LooseEquals(left, right)
    [] operator = "===" -> StrictEquals(left, right)
    [] operator = "!=" -> ~LooseEquals(left, right)
    [] operator = "!==" -> ~StrictEquals(left, right)
    [] OTHER -> TRUE

evaluateCondition(condition, extractedData) ==
  IF ~condition.present THEN TRUE
  ELSE IF condition.type = "comparison"
    THEN CompareWith(condition.operator,
                     Operand(condition.left, extractedData),
                     Operand(condition.right, extractedData))
  ELSE TRUE

(***************************************************************************)
(* evaluateCondition of part_002: the field is read from the row alone.    *)
(***************************************************************************)
evaluateConditionRow(condition, row) ==
  LET fieldValue == Get(row, condition.field)
      value == condition.value
      operator == condition.operator
  IN CASE operator = ">" -> JsGt(ToNumber(fieldValue), ToNumber(value))
       [] operator = "<" -> JsLt(ToNumber(fieldValue), ToNumber(value))
       [] operator = ">=" -> JsGe(ToNumber(fieldValue), ToNumber(value))
       [] operator = "<=" -> JsLe(ToNumber(fieldValue), ToNumber(value))
       [] operator = "==" -> LooseEquals(fieldValue, value)
       [] operator = "!=" -> ~LooseEquals(fieldValue, value)
       [] operator = "exists" ->
            IF StrictEquals(value, Bool(TRUE)) THEN fieldValue # Undef
            ELSE fieldValue = Undef
       [] OTHER -> FALSE

(***************************************************************************)
(* JSON.parse of the text of the embedded-array column, restricted to flat *)
(* arrays: "[" items "]" with the items separated by commas, each an       *)
(* integer literal, a plain double-quoted string, true, false or null.     *)
(***************************************************************************)
JsonScalar(item) ==
  LET u == Trim(item) IN
  \/ u \in {"true", "false", "null"}
  \/ AllDigits(u) /\ (Len(u) = 1 \/ Ch(u, 1) # "0")
  \/ Len(u) > 1 /\ Ch(u, 1) = "-" /\ AllDigits(Substring(u, 1))
       /\ (Len(u) = 2 \/ Ch(u, 2) # "0")
  \/ Len(u) >= 2 /\ Ch(u, 1) = "\"" /\ Ch(u, Len(u)) = "\""
       /\ \A i \in 2..(Len(u) - 1) : Ch(u, i) \notin {"\"", "\\"}

JsonArrayParses(text) ==
  LET u == Trim(text) IN
  /\ StartsWith(u, "[") /\ EndsWith(u, "]") /\ Len(u) >= 2
  /\ LET inner == SubSeq(u, 2, Len(u) - 1)
         items == Split(inner, ",")
     IN Trim(inner) = "" \/ \A i \in 1..Len(items) : JsonScalar(items[i])

(***************************************************************************)
(* replacePlaceholders of part_000 and part_001 (the two are the same      *)
(* text).  ResolveLeaf is the body of traverse for one leaf: the value the *)
(* leaf gets, or a throw.                                                  *)
(***************************************************************************)
Returns(v) == [throws |-> FALSE, v |-> v]
Throws == [throws |-> TRUE, v |-> Undef]

RECURSIVE WalkParts(_, _)
WalkParts(value, pathParts) ==
  IF pathParts = <<>> THEN value
  ELSE IF IsNullish(value) THEN value
  ELSE WalkParts(Prop(value, Head(pathParts)), Tail(pathParts))

(* The walk of lines 561-566: the first part indexes extractedData itself. *)
NestedValue(placeholderName, extractedData) ==
  LET pathParts == Split(placeholderName, ".")
  IN WalkParts(Get(extractedData, Head(pathParts)), Tail(pathParts))

(* ArrayColumn with the error of JSON.parse left uncaught. *)
ArrayColumnThrows(value) ==
  IF IsStr(value) /\ Trim(value.s) # ""
    THEN IF JsonArrayParses(IF ~StartsWith(Trim(value.s), "[")
                               \/ ~EndsWith(Trim(value.s), "]")
                              THEN "[" \o Trim(value.s) \o "]"
                            ELSE Trim(value.s))
           THEN Returns(Obj(IF ~StartsWith(Trim(value.s), "[")
                               \/ ~EndsWith(Trim(value.s), "]")
                              THEN "[" \o Trim(value.s) \o "]"
                            ELSE Trim(value.s)))
         ELSE Throws
  ELSE Returns(Null)

ArrayColumn(value) ==
  IF IsStr(value) /\ Trim(value.s) # ""
    THEN LET t == Trim(value.s)
             jsonString == IF ~StartsWith(t, "[") \/ ~EndsWith(t, "]")
                             THEN "[" \o t \o "]" ELSE t
         IN IF JsonArrayParses(jsonString) THEN Returns(Obj(jsonString))
            ELSE Returns(Null)
  ELSE Returns(Null)

(* Lines 597-607.  A value that is no string has no trim method. *)
Coerce(value) ==
  IF value = Str("null") \/ value = Str("") THEN Returns(Null)
  ELSE IF value = Str("true") THEN Returns(Bool(TRUE))
  ELSE IF value = Str("false") THEN Returns(Bool(FALSE))
  ELSE IF ~IsNaN(value)
    THEN (IF ~IsStr(value) THEN Throws
          ELSE IF Trim(value.s) # "" THEN Returns(ToNumber(value))
          ELSE Returns(value))
  ELSE Returns(value)

(* ResolveLeaf with a throw where the name is in neither layer. *)
ResolveLeafStrict(leaf, rowData, extractedData) ==
  IF ~(IsStr(leaf) /\ StartsWith(leaf.s, "$")) THEN Returns(leaf)
  ELSE
    LET placeholderName == Substring(leaf.s, 1)
        nested == NestedValue(placeholderName, extractedData)
    IN IF Includes(placeholderName, ".") /\ ~IsNullish(nested)
         THEN Returns(nested)
       ELSE IF Get(extractedData, placeholderName) # Undef
         THEN Returns(extractedData[placeholderName])
       ELSE IF Get(rowData, placeholderName) # Undef
         THEN (IF placeholderName = "offeringProducts"
                 THEN ArrayColumn(rowData[placeholderName])
               ELSE Coerce(rowData[placeholderName]))
       ELSE Throws

ResolveLeaf(leaf, rowData, extractedData) ==
  IF ~(IsStr(leaf) /\ StartsWith(leaf.s, "$")) THEN Returns(leaf)
  ELSE
    LET placeholderName == Substring(leaf.s, 1)
        nested == NestedValue(placeholderName, extractedData)
    IN IF Includes(placeholderName, ".") /\ ~IsNullish(nested)
         THEN Returns(nested)
       ELSE IF Get(extractedData, placeholderName) # Undef
         THEN Returns(extractedData[placeholderName])
       ELSE IF Get(rowData, placeholderName) # Undef
         THEN (IF placeholderName = "offeringProducts"
                 THEN ArrayColumn(rowData[placeholderName])
               ELSE Coerce(rowData[placeholderName]))
       ELSE Returns(leaf)

(* replacePlaceholders with the template returned as it is. *)
ReturnTemplate(template, rowData, extractedData) == Returns(template)

(* The payload: every leaf resolved, or a throw when one leaf throws. *)
replacePlaceholders(template, rowData, extractedData) ==
  LET leaves == [k \in DOMAIN template |->
                   ResolveLeaf(template[k], rowData, extractedData)]
  IN IF \E k \in DOMAIN template : leaves[k].throws THEN Throws
     ELSE Returns([k \in DOMAIN template |-> leaves[k].v])

(***************************************************************************)
(* replaceUrlPlaceholders: every match of /(?<!\$)\$([a-zA-Z0-9_]+)/g is   *)
(* replaced by encodeURIComponent of its value in dataContext, or kept.    *)
(***************************************************************************)
HexDigits == "0123456789ABCDEF"

EncodeChar(c) ==
  IF IsWordChar(c) \/ c \in {"-", ".", "!", "~", "*", "'", "(", ")"} THEN c
  ELSE "%" \o Ch(HexDigits, (CharCode(c) \div 16) + 1)
           \o Ch(HexDigits, (CharCode(c) % 16) + 1)

RECURSIVE encodeURIComponent(_)
encodeURIComponent(s) ==
  IF Len(s) = 0 THEN ""
  ELSE EncodeChar(Ch(s, 1)) \o encodeURIComponent(SubSeq(s, 2, Len(s)))

(* The last index of the run of word characters that starts at i. *)
RECURSIVE NameEnd(_, _)
NameEnd(s, i) ==
  IF i < Len(s) /\ IsWordChar(Ch(s, i + 1)) THEN NameEnd(s, i + 1) ELSE i

RECURSIVE ReplaceFrom(_, _, _)
ReplaceFrom(urlTemplate, i, dataContext) ==
  IF i > Len(urlTemplate) THEN ""
  ELSE IF /\ Ch(urlTemplate, i) = "$"
          /\ (i = 1 \/ Ch(urlTemplate, i - 1) # "$")
          /\ i < Len(urlTemplate)
          /\ IsWordChar(Ch(urlTemplate, i + 1))
    THEN LET e == NameEnd(urlTemplate, i + 1)
             placeholderName == SubSeq(urlTemplate, i + 1, e)
             v == Get(dataContext, placeholderName)
         IN (IF ~IsNullish(v) THEN encodeURIComponent(JsString(v))
             ELSE SubSeq(urlTemplate, i, e))
            \o ReplaceFrom(urlTemplate, e + 1, dataContext)
  ELSE Ch(urlTemplate, i) \o ReplaceFrom(urlTemplate, i + 1, dataContext)

(* A template that is no string has no replace method. *)
replaceUrlPlaceholders(urlTemplate, dataContext) ==
  IF ~IsStr(urlTemplate) THEN Throws
  ELSE Returns(Str(ReplaceFrom(urlTemplate.s, 1, dataContext)))

(***************************************************************************)
(* buildPayload of part_002: one level of keys, the row's raw value (or    *)
(* undefined) for every `$name` leaf.                                      *)
(***************************************************************************)
buildPayload(template, data) ==
  [k \in DOMAIN template |->
     IF IsStr(template[k]) /\ StartsWith(template[k].s, "$")
       THEN Get(data, Substring(template[k].s, 1))
     ELSE template[k]]

(***************************************************************************)
(* Extraction of a dot-path from a response body.                          *)
(***************************************************************************)
(* part_000: jsonPath.split('.').reduce((obj, key) => obj?.[key], body),   *)
(* stored whatever it is, undefined included.                              *)
RECURSIVE Reduce(_, _)
Reduce(obj, keys) ==
  IF keys = <<>> THEN obj
  ELSE Reduce(IF IsNullish(obj) THEN Undef ELSE Prop(obj, Head(keys)), Tail(keys))

(* response.data.json || response.data *)
BodyRoot(data) ==
  LET json == Prop(data, "json")
  IN IF json.t = "object" THEN json ELSE data

RECURSIVE ExtractAll0(_, _, _)
ExtractAll0(specs, data, extractedData) ==
  IF specs = <<>> THEN extractedData
  ELSE ExtractAll0(Tail(specs), data,
         Put(extractedData, Head(specs).field,
             Reduce(BodyRoot(data), Split(Head(specs).jsonPath, "."))))

extractFromResponse0(request, data, extractedData) ==
  IF request.extractFromResponse.kind = "none" THEN extractedData
  ELSE ExtractAll0(request.extractFromResponse.specs, data, extractedData)

(***************************************************************************)
(* The inputs of a run.                                                    *)
(***************************************************************************)
MaxRows == 2
MaxLoopRows == 2

Step(name, method, endpoint, payloadTemplate, condition, loopOver, extract) ==
  [name |-> name, method |-> method, endpoint |-> endpoint,
   payloadTemplate |-> payloadTemplate, condition |-> condition,
   loopOver |-> loopOver, extractFromResponse |-> extract]

(* The k-th row of the primary table, as csv-parser delivers it; the table *)
(* has a column named rowNumber.                                           *)
PrimaryRow(k) ==
  [accountId |-> Str(IntToString(100 + k)),
   accountName |-> Str("Acme Co"),
   price |-> Str(IF k % 2 = 1 THEN "25" ELSE "15"),
   rowNumber |-> Str("R7")]

(* The j-th row of the secondary table. *)
SecondaryRow(j) ==
  [contactName |-> Str("c" \o IntToString(j)),
   accountName |-> Str("Sub")]

(* What the HTTP transport may answer to a call. *)
(* message is the message of the error the transport throws. *)
Ok(data) ==
  [ok |-> TRUE, status |-> 200, hasResponse |-> TRUE, data |-> data,
   message |-> ""]
HttpError(status) ==
  [ok |-> FALSE, status |-> status, hasResponse |-> TRUE, data |-> Obj("{}"),
   message |-> "Request failed with status code " \o IntToString(status)]
NetworkError ==
  [ok |-> FALSE, status |-> 0, hasResponse |-> FALSE, data |-> Undef,
   message |-> "Network Error"]
Responses == {Ok(Obj("{id:42}")), Ok(Obj("{}")), HttpError(500), NetworkError}

(* Configurations in the format of part_000. *)
Steps0 ==
  [ Create |->
      Step("Create", Str("POST"), Str("http://api/acct"),
           [id |-> Str("$accountId"), kind |-> Str("new")],
           NoCondition, FALSE, ExtractOne("acctId", "id")),
    Update |->
      Step("Update", Str("PUT"), Str("http://api/acct/$acctId"),
           [ref |-> Str("$acctId"), name |-> Str("$accountName"),
            note |-> Str("$missing")],
           Comparison(Str("$acctId"), ">", Num(20)), FALSE, NoExtract),
    Notify |->
      Step("Notify", Str("POST"), Str("http://api/notify/$accountName/$$x/$nobody"),
           [id |-> Str("$accountId"), ref |-> Str("$acctId")],
           NoCondition, FALSE, NoExtract),
    Discount |->
      Step("Discount", Str("POST"), Str("http://api/discount"),
           [p |-> Str("$price")],
           Comparison(Str("$price"), ">", Num(20)), FALSE, NoExtract),
    Audit |->
      Step("Audit", Str("POST"), Str("http://api/audit"),
           [p |-> Str("$price")],
           Comparison(Str("$price"), "between", Num(20)), FALSE, NoExtract),
    Contacts |->
      Step("Contacts", Str("POST"), Str("http://api/contact/$contactName"),
           [c |-> Str("$contactName"), prev |-> Str("$lastId"), p |-> Str("$price")],
           NoCondition, TRUE, ExtractOne("lastId", "id")),
    Lookup |->
      Step("Lookup", Str("GET"), Str("http://api/acct/$accountId"),
           [id |-> Str("$accountId")],
           NoCondition, FALSE,
           ExtractMany(<<[field |-> "owner", jsonPath |-> "owner.name"],
                         [field |-> "acctId", jsonPath |-> "id"]>>)),
    Match |->
      Step("Match", Undef, Str("http://api/match"),
           [ref |-> Str("$acctId")],
           Comparison(Str("$acctId"), "===", Str("42")), FALSE, NoExtract) ]

Configs0 ==
  { [requests |-> <<Steps0.Create, Steps0.Update, Steps0.Notify>>],
    [requests |-> <<Steps0.Discount, Steps0.Audit>>],
    [requests |-> <<Steps0.Contacts, Steps0.Notify>>],
    [requests |-> <<Steps0.Lookup, Steps0.Match>>] }

Argvs0 ==
  { [interactive |-> FALSE, delay |-> 0, endpoint |-> Undef],
    [interactive |-> TRUE, delay |-> 0, endpoint |-> Undef],
    [interactive |-> FALSE, delay |-> 500, endpoint |-> Undef] }

(* Configurations in the format of part_001 (multi-request mode): the name *)
(* and the method of a request may be absent, and extractFromResponse is   *)
(* one {field, jsonPath} object.  The last two of Configs1 are in the      *)
(* single-request format.                                                  *)
Steps1 ==
  [ Create |->
      Step("Create", Str("post"), Str("http://api/acct"),
           [id |-> Str("$accountId"), kind |-> Str("new")],
           NoCondition, FALSE, ExtractOne("accountId", "id")),
    Update |->
      Step("Update", Str("PUT"), Str("http://api/acct/$accountId/$missing/$$x"),
           [id |-> Str("$accountId"), name |-> Str("$accountName"),
            note |-> Str("$missing")],
           NoCondition, FALSE, NoExtract),
    Ping |->
      Step("", Undef, Str("http://api/ping/$rowNumber"),
           [id |-> Str("$accountId")],
           NoCondition, FALSE, NoExtract),
    Stamp |->
      Step("Stamp", Str("PATCH"), Str("http://api/stamp"),
           [n |-> Str("$rowNumber"), note |-> Str("$missing")],
           NoCondition, FALSE, NoExtract),
    Fetch |->
      Step("Fetch", Str("get"), Str("http://api/acct/$accountId"),
           [id |-> Str("$accountId")],
           NoCondition, FALSE,
           ExtractMany(<<[field |-> "owner", jsonPath |-> "owner.name"],
                         [field |-> "acctId", jsonPath |-> "id"]>>)),
    Blank |->
      Step("Blank", Str("DELETE"), Str("  "),
           [id |-> Str("$accountId")],
           NoCondition, FALSE, NoExtract),
    NoEndpoint |->
      Step("NoEndpoint", Str("POST"), Undef,
           [id |-> Str("$accountId")],
           NoCondition, FALSE, NoExtract) ]

Configs1 ==
  { [requests |-> <<Steps1.Create, Steps1.Update>>],
    [requests |-> <<Steps1.Ping, Steps1.Stamp>>],
    [requests |-> <<Steps1.Fetch, Steps1.Blank>>],
    [requests |-> <<Steps1.Fetch, Steps1.NoEndpoint>>],
    [requests |-> <<Steps1.Create>>],
    Steps1.Create,
    Steps1.NoEndpoint }

Argvs1 ==
  { [interactive |-> FALSE, delay |-> 0, endpoint |-> Undef],
    [interactive |-> TRUE, delay |-> 0, endpoint |-> Undef],
    [interactive |-> FALSE, delay |-> 500, endpoint |-> Undef],
    [interactive |-> TRUE, delay |-> 500, endpoint |-> Str("http://alt/$accountId")],
    [interactive |-> FALSE, delay |-> 0, endpoint |-> Str(" ")] }

(* Configurations in the format of part_002: a condition names a field of  *)
(* the row, loopCsv marks a loop step, extractFromResponse is an array.    *)
Steps2 ==
  [ Create |->
      Step("Create", Str("POST"), Str("http://api/acct"),
           [id |-> Str("$accountId"), kind |-> Str("new")],
           NoCondition, FALSE, ExtractMany(<<[field |-> "acctId", jsonPath |-> "id"]>>)),
    Update |->
      Step("Update", Str("PUT"), Str("http://api/acct/$acctId"),
           [ref |-> Str("$acctId"), name |-> Str("$accountName")],
           NoCondition, FALSE, NoExtract),
    Discount |->
      Step("Discount", Str("POST"), Str("http://api/discount"),
           [p |-> Str("$price")],
           FieldCondition("price", ">", Num(20)), FALSE, NoExtract),
    Audit |->
      Step("Audit", Str("POST"), Str("http://api/audit"),
           [p |-> Str("$price")],
           FieldCondition("price", "between", Num(20)), FALSE, NoExtract),
    Notify |->
      Step("Notify", Str("POST"), Str("http://api/notify"),
           [id |-> Str("$accountId")],
           NoCondition, FALSE, NoExtract),
    Tag |->
      Step("Tag", Str("POST"), Str("http://api/tag"),
           [id |-> Str("$accountId")],
           NoCondition, FALSE, ExtractOne("seen", "id")),
    Contacts |->
      Step("Contacts", Str("POST"), Str("http://api/contact"),
           [c |-> Str("$contactName"), name |-> Str("$accountName")],
           FieldCondition("accountId", "exists", Bool(TRUE)), TRUE,
           ExtractMany(<<[field |-> "lastId", jsonPath |-> "id"]>>)),
    Lookup |->
      Step("Lookup", Str("GET"), Str("http://api/acct"),
           [id |-> Str("$accountId")],
           NoCondition, FALSE,
           ExtractMany(<<[field |-> "owner", jsonPath |-> "owner.name"],
                         [field |-> "acctId", jsonPath |-> "id"]>>)) ]

Configs2 ==
  { [requests |-> <<Steps2.Create, Steps2.Update>>],
    [requests |-> <<Steps2.Discount, Steps2.Audit, Steps2.Notify>>],
    [requests |-> <<Steps2.Contacts, Steps2.Tag>>],
    [requests |-> <<Steps2.Lookup, Steps2.Notify>>] }

Argvs2 == { [interactive |-> FALSE, delay |-> 0, endpoint |-> Undef] }

(***************************************************************************)
(* The state.                                                              *)
(***************************************************************************)
VARIABLES
  impl,           \* which program runs: "p0", "p1", "p2" or "p3"
  config,         \* the parsed configuration file
  argv,           \* the command line
  csvData,        \* the row objects of the primary table
  loopData,       \* the row objects of the secondary table
  batch,          \* where the batch as a whole stands
  rowNumber,      \* part_000: the counter shared by all 'data' handlers
  processedRows,  \* part_001: the counters of the summary
  successfulRows,
  failedRows,
  pc,             \* per row: where its pipeline stands
  frame,          \* per row: the locals of its pipeline (step, repetition,
                  \*   the request being prepared or awaited, and in
                  \*   part_002 results.success and results.errors)
  extractedData,  \* per row: the values extracted so far
  calls,          \* per row: the requests handed to the HTTP transport
  decisions,      \* per row: the steps considered so far, each with the
                  \*   outcome of its condition
  results,        \* the outcomes pushed so far
  errorLog        \* the failures reported so far (logError, console.error)

vars ==
  <<impl, config, argv, csvData, loopData, batch, rowNumber, processedRows,
    successfulRows, failedRows, pc, frame, extractedData, calls, decisions,
    results, errorLog>>

inputs == <<impl, config, argv, loopData>>
counters == <<processedRows, successfulRows, failedRows>>

Rows == 1..Len(csvData)

(* part_001, line 742 *)
isMultiRequestMode(cfg) ==
  "requests" \in DOMAIN cfg /\ Len(cfg.requests) > 0

(* part_001, line 798 *)
requestsToProcess(cfg) ==
  IF isMultiRequestMode(cfg) THEN cfg.requests ELSE <<cfg>>

(* The requests a row goes through: requestsToProcess in part_001, the one *)
(* post of src/index.js (141), config.requests in part_000 (346) and       *)
(* part_002, which is undefined (here: without elements) when the          *)
(* configuration has no such property.                                     *)
Requests ==
  IF impl = "p1" THEN requestsToProcess(config)
  ELSE IF impl = "p3"
    THEN <<Step("", Str("POST"), argv.endpoint, config.payloadTemplate,
                NoCondition, FALSE, NoExtract)>>
  ELSE IF "requests" \in DOMAIN config THEN config.requests
  ELSE <<>>
Terminal == {"succeeded", "failed"}

NoFrame ==
  [i |-> 0, j |-> 0, method |-> Undef, url |-> Undef, data |-> EmptyObj,
   before |-> EmptyObj, success |-> TRUE, errors |-> <<>>]

InitRows ==
  /\ \E n \in 0..MaxRows : csvData = [k \in 1..n |-> PrimaryRow(k)]
  /\ \E m \in 0..MaxLoopRows : loopData = [j \in 1..m |-> SecondaryRow(j)]
  /\ pc = [r \in Rows |-> "pending"]
  /\ frame = [r \in Rows |-> NoFrame]
  /\ extractedData = [r \in Rows |-> EmptyObj]
  /\ calls = [r \in Rows |-> <<>>]
  /\ decisions = [r \in Rows |-> <<>>]
  /\ results = <<>>
  /\ errorLog = <<>>
  /\ rowNumber = 0
  /\ processedRows = 0
  /\ successfulRows = 0
  /\ failedRows = 0

Init0 ==
  /\ impl = "p0"
  /\ config \in Configs0
  /\ argv \in Argvs0
  /\ batch = "streaming"
  /\ InitRows

(* part_001, lines 745-754: every request of the array, or the            *)
(* configuration itself when there is no such array, must have an endpoint *)
(* and a payload template, whatever the command line says; the error       *)
(* thrown otherwise ends the run (927-930).  Every configuration of        *)
(* Configs1 has its payload templates.                                     *)
ValidConfig1(cfg) ==
  IF isMultiRequestMode(cfg)
    THEN \A k \in 1..Len(cfg.requests) : Truthy(cfg.requests[k].endpoint)
  ELSE "endpoint" \in DOMAIN cfg /\ Truthy(cfg.endpoint)

(* part_001: the configuration has been validated and the stream has       *)
(* delivered its rows into results (783); the loop table plays no part.    *)
Init1 ==
  /\ impl = "p1"
  /\ config \in Configs1
  /\ argv \in Argvs1
  /\ batch = IF ValidConfig1(config) THEN "read" ELSE "fatal"
  /\ InitRows
  /\ loopData = <<>>

(* part_002: readCsv has returned the rows (161). *)
Init2 ==
  /\ impl = "p2"
  /\ config \in Configs2
  /\ argv \in Argvs2
  /\ batch = "row"
  /\ InitRows

(***************************************************************************)
(* What the programs share: positions in the two nested loops, the record  *)
(* of a call, of a decision and of a reported failure.                     *)
(***************************************************************************)
Pos(kind, i, j) == [kind |-> kind, i |-> i, j |-> j, seen |-> <<>>]
Target(kind, i, j, seen) == [kind |-> kind, i |-> i, j |-> j, seen |-> seen]

(* After with the position left where it is: the same call once more. *)
SameCallAgain(i, j) == IF j = 0 THEN Pos("step", i, 0) ELSE Pos("rep", i, j)

(* The position after the call (or the declined call) at step i, rep. j. *)
After(i, j) == IF j = 0 THEN Pos("step", i + 1, 0) ELSE Pos("rep", i, j + 1)

(* Step i was considered with ed extracted; met is what its condition gave. *)
Decision(i, met, ed) == [i |-> i, met |-> met, extracted |-> ed]

(* The request handed to the transport: fr is the frame it was prepared    *)
(* in, ed the extracted data its placeholders were resolved with.          *)
Call(fr, ed) ==
  [i |-> fr.i, j |-> fr.j, method |-> fr.method, url |-> fr.url,
   data |-> fr.data, before |-> fr.before, extracted |-> ed]

(* A reported failure of step i of row r; rn, requestName, statusCode and  *)
(* message are what the report says, issued the number of calls the row    *)
(* has made by then.                                                       *)
ErrorRecord(r, i, rn, requestName, statusCode, message) ==
  [row |-> r, step |-> i, issued |-> Len(calls[r]), rowNumber |-> rn,
   requestName |-> requestName, statusCode |-> statusCode,
   message |-> message]

(* error.response?.status || 'N/A' *)
StatusCode(response) ==
  IF response.hasResponse /\ response.status # 0 THEN Num(response.status)
  ELSE Str("N/A")

(***************************************************************************)
(* part_000, processCSV.  Every 'data' event starts an async handler; the  *)
(* stream does not wait for it.  A handler runs from one await to the next *)
(* without interruption, so each action below is one such stretch: the     *)
(* event that resumes the handler and everything up to the next await (or  *)
(* to the end of the handler).  The awaits are the prompt ("ask"), the     *)
(* HTTP call ("http") and the delay ("sleep").                             *)
(***************************************************************************)
(* NewExtractedData with the object declared outside the handler. *)
SharedExtractedData(previous) == previous

(* let extractedData = {} (343): every handler gets an object of its own,  *)
(* whatever the handler started before it holds.                           *)
NewExtractedData(previous) == EmptyObj

(* OnConditionFalse with a break in place of the continue. *)
AbortOnConditionFalse(i) == Pos("step", Len(Requests) + 1, 0)

(* continue (351-354): on to the next request. *)
OnConditionFalse(i) == Pos("step", i + 1, 0)

(* OnDeclined with the row left at the declined call. *)
AbortOnDeclined(i, j) == Pos("step", Len(Requests) + 1, 0)

(* continue (370, 430): the next repetition of a loop step, the next       *)
(* request otherwise.                                                      *)
OnDeclined(i, j) ==
  IF j = 0 THEN Pos("step", i + 1, 0) ELSE Pos("rep", i, j + 1)

(* From a position of the two nested loops (346-359) to the next call to   *)
(* prepare, or to the end of the requests: a step whose condition is false *)
(* is passed over, and so is a loop step without (further) rows.  seen     *)
(* collects the steps considered on the way.                               *)
RECURSIVE Seek0(_, _, _)
(* Seek0 with the requests of the row ended at a loop step without rows. *)
StopAtEmptyLoop(pos, ed, seen) ==
  IF pos.kind = "step"
    THEN IF pos.i > Len(Requests) THEN Target("end", 0, 0, seen)
         ELSE IF ~evaluateCondition(Requests[pos.i].condition, ed)
           THEN Seek0(OnConditionFalse(pos.i), ed,
                      Append(seen, Decision(pos.i, FALSE, ed)))
         ELSE IF Requests[pos.i].loopOver
           THEN Seek0(Pos("rep", pos.i, 1), ed,
                      Append(seen, Decision(pos.i, TRUE, ed)))
         ELSE Target("call", pos.i, 0, Append(seen, Decision(pos.i, TRUE, ed)))
  ELSE IF pos.j > Len(loopData)
    THEN (IF Len(loopData) = 0 THEN Target("end", 0, 0, seen)
          ELSE Seek0(Pos("step", pos.i + 1, 0), ed, seen))
  ELSE Target("call", pos.i, pos.j, seen)

Seek0(pos, ed, seen) ==
  IF pos.kind = "step"
    THEN IF pos.i > Len(Requests) THEN Target("end", 0, 0, seen)
         ELSE IF ~evaluateCondition(Requests[pos.i].condition, ed)
           THEN Seek0(OnConditionFalse(pos.i), ed,
                      Append(seen, Decision(pos.i, FALSE, ed)))
         ELSE IF Requests[pos.i].loopOver
           THEN Seek0(Pos("rep", pos.i, 1), ed,
                      Append(seen, Decision(pos.i, TRUE, ed)))
         ELSE Target("call", pos.i, 0, Append(seen, Decision(pos.i, TRUE, ed)))
  ELSE IF pos.j > Len(loopData) THEN Seek0(Pos("step", pos.i + 1, 0), ed, seen)
  ELSE Target("call", pos.i, pos.j, seen)

(* results.push of lines 480 and 483; r is the row the handler was started *)
(* for, rn what the shared counter holds at that moment.                   *)
Outcome0(r, rn, success, ed, message) ==
  [row |-> r, rowNumber |-> rn, success |-> success,
   extractedData |-> IF success THEN ed ELSE EmptyObj,
   error |-> IF success THEN Undef ELSE Str(message)]

(* The inner catch (405-416, 465-476) and the outer one (482-485). *)
Fail0(r, i, rn, requestName, statusCode, message) ==
  /\ errorLog' = Append(errorLog, ErrorRecord(r, i, rn, requestName, statusCode,
                                              message))
  /\ results' = Append(results, Outcome0(r, rn, FALSE, EmptyObj, message))
  /\ pc' = [pc EXCEPT ![r] = "failed"]

(* Lines 367-380 (427-440): the prompt when interactive, or the call. *)
Issue0(r, rn, ed, request, fr, payload, url) ==
  IF payload.throws \/ url.throws
    THEN /\ Fail0(r, fr.i, rn, request.name, Str("N/A"),
                  IF payload.throws THEN "value.trim is not a function"
                  ELSE "urlTemplate.replace is not a function")
         /\ UNCHANGED <<frame, calls>>
  ELSE IF argv.interactive
    THEN /\ pc' = [pc EXCEPT ![r] = "ask"]
         /\ frame' = [frame EXCEPT ![r] = fr]
         /\ UNCHANGED <<calls, results, errorLog>>
  ELSE /\ pc' = [pc EXCEPT ![r] = "http"]
       /\ frame' = [frame EXCEPT ![r] = fr]
       /\ calls' = [calls EXCEPT ![r] = Append(@, Call(fr, ed))]
       /\ UNCHANGED <<results, errorLog>>

(* Lines 361-362 (421-422): source is the loop row in a loop step and the  *)
(* row itself otherwise.                                                   *)
Prepare0(r, rn, ed, t, request, source) ==
  Issue0(r, rn, ed, request,
         [i |-> t.i, j |-> t.j, method |-> request.method,
          url |-> replaceUrlPlaceholders(request.endpoint, Spread(source, ed)).v,
          data |-> replacePlaceholders(request.payloadTemplate, source, ed).v,
          before |-> IF t.j <= 1 THEN ed ELSE frame[r].before,
          success |-> TRUE, errors |-> <<>>],
         replacePlaceholders(request.payloadTemplate, source, ed),
         replaceUrlPlaceholders(request.endpoint, Spread(source, ed)))

Resume0(r, t, ed, row, rn) ==
  /\ extractedData' = [extractedData EXCEPT ![r] = ed]
  /\ decisions' = [decisions EXCEPT ![r] = @ \o t.seen]
  /\ IF t.kind = "end"
       THEN /\ results' = Append(results, Outcome0(r, rn, TRUE, ed, ""))
            /\ pc' = [pc EXCEPT ![r] = "succeeded"]
            /\ UNCHANGED <<frame, calls, errorLog>>
     ELSE Prepare0(r, rn, ed, t, Requests[t.i],
                   IF t.j = 0 THEN row ELSE loopData[t.j])

(* The handler of row r from position pos on, with ed extracted so far,    *)
(* row its row object and rn the value of the shared counter.              *)
Continue0(r, pos, ed, row, rn) == Resume0(r, Seek0(pos, ed, <<>>), ed, row, rn)

(* 'data' (337-346): the next row leaves the stream.  The for...of of 346  *)
(* throws when config.requests is undefined, and the catch of 482 pushes   *)
(* the failed outcome.                                                     *)
Start0(r, row) ==
  /\ rowNumber' = r
  /\ csvData' = [csvData EXCEPT ![r] = row]
  /\ IF "requests" \notin DOMAIN config
       THEN /\ results' = Append(results,
                                 Outcome0(r, r, FALSE, EmptyObj,
                                          "config.requests is not iterable"))
            /\ pc' = [pc EXCEPT ![r] = "failed"]
            /\ UNCHANGED <<frame, extractedData, calls, decisions, errorLog>>
     ELSE Continue0(r, Pos("step", 1, 0),
                    NewExtractedData(IF r > 1 THEN extractedData[r - 1]
                                     ELSE EmptyObj),
                    row, r)

DataEvent0 ==
  /\ impl = "p0" /\ batch = "streaming" /\ rowNumber < Len(csvData)
  /\ Start0(rowNumber + 1, Put(csvData[rowNumber + 1], "rowNumber", Num(rowNumber + 1)))
  /\ UNCHANGED <<inputs, batch, counters>>

(* The operator answers the prompt of 368 or 428: every answer but y or Y  *)
(* passes the call over.                                                   *)
Answer0(r, proceed) ==
  /\ impl = "p0" /\ pc[r] = "ask"
  /\ IF toLowerCase(proceed) = "y"
       THEN /\ pc' = [pc EXCEPT ![r] = "http"]
            /\ calls' = [calls EXCEPT
                           ![r] = Append(@, Call(frame[r], extractedData[r]))]
            /\ UNCHANGED <<frame, extractedData, decisions, results, errorLog>>
     ELSE Continue0(r, OnDeclined(frame[r].i, frame[r].j), extractedData[r],
                    csvData[r], rowNumber)
  /\ UNCHANGED <<inputs, csvData, batch, rowNumber, counters>>

(* The call of row r is answered (382-404, 442-464, or the catch). *)
HttpResponse0(r, response) ==
  /\ impl = "p0" /\ pc[r] = "http"
  /\ IF ~response.ok
       THEN /\ Fail0(r, frame[r].i, rowNumber, Requests[frame[r].i].name,
                     StatusCode(response), response.message)
            /\ UNCHANGED <<frame, extractedData, calls, decisions>>
     ELSE IF argv.delay > 0
       THEN /\ pc' = [pc EXCEPT ![r] = "sleep"]
            /\ extractedData' =
                 [extractedData EXCEPT
                    ![r] = extractFromResponse0(Requests[frame[r].i],
                                                response.data, @)]
            /\ UNCHANGED <<frame, calls, decisions, results, errorLog>>
     ELSE Continue0(r, After(frame[r].i, frame[r].j),
                    extractFromResponse0(Requests[frame[r].i], response.data,
                                         extractedData[r]),
                    csvData[r], rowNumber)
  /\ UNCHANGED <<inputs, csvData, batch, rowNumber, counters>>

(* The timer of 403 or 463 fires. *)
SleepDone0(r) ==
  /\ impl = "p0" /\ pc[r] = "sleep"
  /\ Continue0(r, After(frame[r].i, frame[r].j), extractedData[r], csvData[r],
               rowNumber)
  /\ UNCHANGED <<inputs, csvData, batch, rowNumber, counters>>

(* 'end' (487-493): the stream has delivered its last row. *)
EndEvent0 ==
  /\ impl = "p0" /\ batch = "streaming" /\ rowNumber = Len(csvData)
  /\ batch' = "ended"
  /\ UNCHANGED <<inputs, csvData, rowNumber, counters, pc, frame,
                 extractedData, calls, decisions, results, errorLog>>

Next0 ==
  \/ DataEvent0
  \/ EndEvent0
  \/ \E r \in Rows : \E response \in Responses : HttpResponse0(r, response)
  \/ \E r \in Rows : \E proceed \in {"y", "Y", "n"} : Answer0(r, proceed)
  \/ \E r \in Rows : SleepDone0(r)

SpecP0 == Init0 /\ [][Next0]_vars

(***************************************************************************)
(* part_001, processCSV (multi-request mode).  The 'end' handler walks the *)
(* rows one after the other; batch is where it stands: "read" before the   *)
(* handler runs, "row" at the head of the row loop (789), "http", "sleep"  *)
(* and "prompt" at its three awaits, "done" after the loop and the summary *)
(* that follows it, "returned" when the handler returned before the loop.  *)
(***************************************************************************)
(* currentRequestConfig.name || `Request #${i + 1}` (804), i counted from 1 *)
requestName(request, i) ==
  IF request.name # "" THEN request.name ELSE "Request #" \o IntToString(i)

(* endpointTemplate with the override as a fallback of the request's own   *)
(* endpoint.                                                               *)
OwnEndpointFirst(request) ==
  IF Truthy(request.endpoint) THEN request.endpoint ELSE argv.endpoint

(* argv.endpoint || currentRequestConfig.endpoint (809) *)
endpointTemplate(request) ==
  IF Truthy(argv.endpoint) THEN argv.endpoint ELSE request.endpoint

(* Lines 810-812. *)
httpMethod(request) ==
  IF /\ IsStr(request.method) /\ request.method.s # ""
     /\ toUpperCase(request.method.s) \in {"POST", "PUT", "GET", "DELETE", "PATCH"}
    THEN toUpperCase(request.method.s)
  ELSE "POST"

(* The test of 814. *)
InvalidEndpoint(e) == ~Truthy(e) \/ ~IsStr(e) \/ Trim(e.s) = ""

(* Lines 853-862: the walk along the path, null as soon as a part is       *)
(* asked of undefined or null.                                             *)
RECURSIVE Walk1(_, _)
Walk1(valueToExtract, pathParts) ==
  IF pathParts = <<>> THEN valueToExtract
  ELSE IF IsNullish(valueToExtract) THEN Null
  ELSE Walk1(Prop(valueToExtract, Head(pathParts)), Tail(pathParts))

(* Lines 848-878: one {field, jsonPath}; what is not found is stored as    *)
(* null.  An array has neither a field nor a jsonPath of its own.          *)
extractFromResponse1(request, data, extractedDataForRow) ==
  IF request.extractFromResponse.kind # "single" THEN extractedDataForRow
  ELSE IF request.extractFromResponse.specs[1].field = ""
          \/ request.extractFromResponse.specs[1].jsonPath = ""
    THEN extractedDataForRow
  ELSE Put(extractedDataForRow, request.extractFromResponse.specs[1].field,
           IF IsNullish(Walk1(data, Split(request.extractFromResponse.specs[1].jsonPath, ".")))
             THEN Null
           ELSE Walk1(data, Split(request.extractFromResponse.specs[1].jsonPath, ".")))

(* AfterRow1 with the row loop left after a failed row. *)
StopAfterFailure1(processed, rowFailed) ==
  IF rowFailed THEN "done"
  ELSE IF argv.delay > 0 /\ processed < Len(csvData) THEN "sleep"
  ELSE IF argv.interactive /\ processed < Len(csvData) THEN "prompt"
  ELSE "row"

(* AfterRow1 with the handler left waiting for something that never comes. *)
HangAfterRow(processed, rowFailed) == "hung"

(* Lines 900-913 and the head of the loop: what the handler waits for once *)
(* row number processed has ended, failed or not.                          *)
AfterRow1(processed, rowFailed) ==
  IF argv.delay > 0 /\ processed < Len(csvData) THEN "sleep"
  ELSE IF argv.interactive /\ processed < Len(csvData) THEN "prompt"
  ELSE "row"

(* The end of a row: 882, or the catch of 884-898. *)
Settle1(r, i, rowFailed, statusCode, message) ==
  /\ pc' = [pc EXCEPT ![r] = IF rowFailed THEN "failed" ELSE "succeeded"]
  /\ successfulRows' = IF rowFailed THEN successfulRows ELSE successfulRows + 1
  /\ failedRows' = IF rowFailed THEN failedRows + 1 ELSE failedRows
  /\ errorLog' = IF rowFailed
                   THEN Append(errorLog,
                               ErrorRecord(r, i, r, "a request", statusCode,
                                           message))
                 ELSE errorLog
  /\ batch' = AfterRow1(r, rowFailed)

(* Lines 826-842: the placeholders are resolved and the request is made;   *)
(* a GET or a DELETE carries no body.                                      *)
Issue1(r, i, ed, request, payload, url) ==
  IF payload.throws \/ url.throws
    THEN /\ Settle1(r, i, TRUE, Str("N/A"),
                    IF url.throws THEN "urlTemplate.replace is not a function"
                    ELSE "value.trim is not a function")
         /\ frame' = [frame EXCEPT ![r] = [@ EXCEPT !.i = i, !.success = FALSE]]
         /\ UNCHANGED calls
  ELSE /\ pc' = [pc EXCEPT ![r] = "http"]
       /\ batch' = "http"
       /\ frame' = [frame EXCEPT ![r] =
                      [i |-> i, j |-> 0, method |-> Str(httpMethod(request)),
                       url |-> url.v,
                       data |-> IF httpMethod(request) \notin {"GET", "DELETE"}
                                  THEN payload.v ELSE Undef,
                       before |-> ed, success |-> TRUE, errors |-> <<>>]]
       /\ calls' = [calls EXCEPT ![r] = Append(@,
                      [i |-> i, j |-> 0, method |-> Str(httpMethod(request)),
                       url |-> url.v,
                       data |-> IF httpMethod(request) \notin {"GET", "DELETE"}
                                  THEN payload.v ELSE Undef,
                       before |-> ed, extracted |-> ed])]
       /\ UNCHANGED <<successfulRows, failedRows, errorLog>>

(* Lines 802-830 for request i of row r, or the end of its requests. *)
Attempt1(r, i, ed, row) ==
  /\ extractedData' = [extractedData EXCEPT ![r] = ed]
  /\ IF i > Len(Requests)
       THEN /\ Settle1(r, i, FALSE, Str("N/A"), "")
            /\ UNCHANGED <<frame, calls>>
     ELSE IF InvalidEndpoint(endpointTemplate(Requests[i]))
       THEN /\ Settle1(r, i, TRUE, Str("N/A"),
                       "Missing or invalid \"endpoint\" for "
                         \o requestName(Requests[i], i)
                         \o " in config. Please ensure it is a string.")
            /\ frame' = [frame EXCEPT ![r] = [@ EXCEPT !.i = i, !.success = FALSE]]
            /\ UNCHANGED calls
     ELSE Issue1(r, i, ed, Requests[i],
                 replacePlaceholders(Requests[i].payloadTemplate, row, ed),
                 replaceUrlPlaceholders(endpointTemplate(Requests[i]),
                                        Spread(row, ed)))

(* 'end' (784-786): without rows the handler returns at 786, before the    *)
(* row loop and before the summary.                                        *)
EndEvent1 ==
  /\ impl = "p1" /\ batch = "read"
  /\ batch' = IF Len(csvData) = 0 THEN "returned" ELSE "row"
  /\ UNCHANGED <<inputs, csvData, rowNumber, counters, pc, frame,
                 extractedData, calls, decisions, results, errorLog>>

(* The head of the row loop (789-795) and the first request of the row. *)
Start1(r, row) ==
  /\ processedRows' = r
  /\ csvData' = [csvData EXCEPT ![r] = row]
  /\ Attempt1(r, 1, EmptyObj, row)

RowStart1 ==
  /\ impl = "p1" /\ batch = "row" /\ processedRows < Len(csvData)
  /\ Start1(processedRows + 1,
            Put(csvData[processedRows + 1], "rowNumber", Num(processedRows + 1)))
  /\ UNCHANGED <<inputs, rowNumber, decisions, results>>

(* The rows are exhausted: the summary (916-920). *)
Summary1 ==
  /\ impl = "p1" /\ batch = "row" /\ processedRows = Len(csvData)
  /\ batch' = "done"
  /\ UNCHANGED <<inputs, csvData, rowNumber, counters, pc, frame,
                 extractedData, calls, decisions, results, errorLog>>

(* The request of the current row is answered (844-879, or the catch). *)
HttpResponse1(response) ==
  /\ impl = "p1" /\ batch = "http"
  /\ IF ~response.ok
       THEN /\ Settle1(processedRows, frame[processedRows].i, TRUE,
                       StatusCode(response), response.message)
            /\ frame' = [frame EXCEPT ![processedRows].success = FALSE]
            /\ UNCHANGED <<extractedData, calls>>
     ELSE Attempt1(processedRows, frame[processedRows].i + 1,
                   extractFromResponse1(Requests[frame[processedRows].i],
                                        response.data,
                                        extractedData[processedRows]),
                   csvData[processedRows])
  /\ UNCHANGED <<inputs, csvData, rowNumber, processedRows, decisions, results>>

(* The timer of 903 fires; the prompt of 907 may follow. *)
SleepDone1 ==
  /\ impl = "p1" /\ batch = "sleep"
  /\ batch' = IF argv.interactive /\ processedRows < Len(csvData)
                THEN "prompt" ELSE "row"
  /\ UNCHANGED <<inputs, csvData, rowNumber, counters, pc, frame,
                 extractedData, calls, decisions, results, errorLog>>

(* Answer1 with the row loop going on whatever the answer. *)
ContinueOnDecline(answer) ==
  /\ impl = "p1" /\ batch = "prompt"
  /\ batch' = "row"
  /\ UNCHANGED <<inputs, csvData, rowNumber, counters, pc, frame,
                 extractedData, calls, decisions, results, errorLog>>

(* The operator answers the prompt of 908: 'n' leaves the row loop, and    *)
(* the summary (916-920) is printed.                                       *)
Answer1(answer) ==
  /\ impl = "p1" /\ batch = "prompt"
  /\ batch' = IF toLowerCase(answer) = "n" THEN "done" ELSE "row"
  /\ UNCHANGED <<inputs, csvData, rowNumber, counters, pc, frame,
                 extractedData, calls, decisions, results, errorLog>>

Next1 ==
  \/ EndEvent1
  \/ RowStart1
  \/ Summary1
  \/ \E response \in Responses : HttpResponse1(response)
  \/ SleepDone1
  \/ \E answer \in {"y", "N", "n"} : Answer1(answer)

SpecP1 == Init1 /\ [][Next1]_vars

(***************************************************************************)
(* part_002, main and processRow.  The rows are processed one after the    *)
(* other; batch is "row" at the head of the loop of main (164), "http"     *)
(* while processRow awaits makeRequest, "done" after the summary.  The     *)
(* try of processRow lies inside the loop over the requests, so that the   *)
(* catch (121-128) is followed by the next request.                        *)
(***************************************************************************)
(* extractFields (49-56): only a value that is not undefined is written. *)
RECURSIVE extractFields(_, _, _)
extractFields(response, fields, extractedDataForRow) ==
  IF fields = <<>> THEN extractedDataForRow
  ELSE extractFields(response, Tail(fields),
         IF Reduce(response, Split(Head(fields).jsonPath, ".")) # Undef
           THEN Put(extractedDataForRow, Head(fields).field,
                    Reduce(response, Split(Head(fields).jsonPath, ".")))
         ELSE extractedDataForRow)

(* From a position of the loops of 82-95 to the next call to make, or to   *)
(* the end of the requests.                                                *)
RECURSIVE Seek2(_, _, _, _)
Seek2(pos, row, ed, seen) ==
  IF pos.kind = "step"
    THEN IF pos.i > Len(Requests) THEN Target("end", 0, 0, seen)
         ELSE IF /\ Requests[pos.i].condition.present
                 /\ ~evaluateConditionRow(Requests[pos.i].condition, row)
           THEN Seek2(Pos("step", pos.i + 1, 0), row, ed,
                      Append(seen, Decision(pos.i, FALSE, ed)))
         ELSE IF Requests[pos.i].loopOver
           THEN Seek2(Pos("rep", pos.i, 1), row, ed,
                      Append(seen, Decision(pos.i, TRUE, ed)))
         ELSE Target("call", pos.i, 0, Append(seen, Decision(pos.i, TRUE, ed)))
  ELSE IF pos.j > Len(loopData)
    THEN Seek2(Pos("step", pos.i + 1, 0), row, ed, seen)
  ELSE Target("call", pos.i, pos.j, seen)

(* The results object of processRow (76-80, 122-126) as main pushes it. *)
RowResults(success, errors, ed) ==
  [success |-> success, errors |-> errors, extractedData |-> ed]

(* processRow of row r from position t on; success and errors are those of *)
(* its results object.  At the end of the requests main pushes the results *)
(* (166-167); otherwise the payload is built and the request made          *)
(* (96-99, 109-112).                                                       *)
Resume2(r, t, ed, row, success, errors) ==
  /\ extractedData' = [extractedData EXCEPT ![r] = ed]
  /\ decisions' = [decisions EXCEPT ![r] = @ \o t.seen]
  /\ IF t.kind = "end"
       THEN /\ results' = Append(results, RowResults(success, errors, ed))
            /\ pc' = [pc EXCEPT ![r] = IF success THEN "succeeded" ELSE "failed"]
            /\ batch' = "row"
            /\ frame' = [frame EXCEPT ![r] =
                           [@ EXCEPT !.success = success, !.errors = errors]]
            /\ UNCHANGED calls
     ELSE /\ pc' = [pc EXCEPT ![r] = "http"]
          /\ batch' = "http"
          /\ frame' = [frame EXCEPT ![r] =
               [i |-> t.i, j |-> t.j, method |-> Requests[t.i].method,
                url |-> Requests[t.i].endpoint,
                data |-> buildPayload(Requests[t.i].payloadTemplate,
                           IF t.j = 0 THEN row ELSE Spread(row, loopData[t.j])),
                before |-> IF t.j <= 1 THEN ed ELSE frame[r].before,
                success |-> success, errors |-> errors]]
          /\ calls' = [calls EXCEPT ![r] = Append(@,
               [i |-> t.i, j |-> t.j, method |-> Requests[t.i].method,
                url |-> Requests[t.i].endpoint,
                data |-> buildPayload(Requests[t.i].payloadTemplate,
                           IF t.j = 0 THEN row ELSE Spread(row, loopData[t.j])),
                before |-> IF t.j <= 1 THEN ed ELSE frame[r].before,
                extracted |-> ed])]
          /\ UNCHANGED results

Continue2(r, pos, ed, row, success, errors) ==
  Resume2(r, Seek2(pos, row, ed, <<>>), ed, row, success, errors)

(* main calls processRow for the next row (164-166, 75-80). *)
RowStart2 ==
  /\ impl = "p2" /\ batch = "row" /\ Len(results) < Len(csvData)
  /\ Continue2(Len(results) + 1, Pos("step", 1, 0), EmptyObj,
               csvData[Len(results) + 1], TRUE, <<>>)
  /\ UNCHANGED <<inputs, csvData, rowNumber, counters, errorLog>>

(* The rows are exhausted: the summary (170-172). *)
Summary2 ==
  /\ impl = "p2" /\ batch = "row" /\ Len(results) = Len(csvData)
  /\ batch' = "done"
  /\ UNCHANGED <<inputs, csvData, rowNumber, counters, pc, frame,
                 extractedData, calls, decisions, results, errorLog>>

(* The catch of 121-128, then the next request. *)
Catch2(r, i, requestName2, statusCode, message) ==
  /\ errorLog' = Append(errorLog, ErrorRecord(r, i, r, requestName2, statusCode,
                                              message))
  /\ Continue2(r, Pos("step", i + 1, 0), extractedData[r], csvData[r], FALSE,
               Append(frame[r].errors,
                      [request |-> requestName2, error |-> message]))

(* makeRequest returns or throws (58-73); the extraction of 102-106 and    *)
(* 115-119 iterates over extractFromResponse, which throws when that is    *)
(* one object and no array.                                                *)
HttpResponse2(response) ==
  /\ impl = "p2" /\ batch = "http"
  /\ IF ~response.ok
       THEN Catch2(Len(results) + 1, frame[Len(results) + 1].i,
                   Requests[frame[Len(results) + 1].i].name, StatusCode(response),
                   response.message)
     ELSE IF Requests[frame[Len(results) + 1].i].extractFromResponse.kind = "single"
       THEN Catch2(Len(results) + 1, frame[Len(results) + 1].i,
                   Requests[frame[Len(results) + 1].i].name, Str("N/A"),
                   "fields is not iterable")
     ELSE /\ Continue2(Len(results) + 1,
                       After(frame[Len(results) + 1].i, frame[Len(results) + 1].j),
                       extractFields(response.data,
                         Requests[frame[Len(results) + 1].i].extractFromResponse.specs,
                         extractedData[Len(results) + 1]),
                       csvData[Len(results) + 1],
                       frame[Len(results) + 1].success,
                       frame[Len(results) + 1].errors)
          /\ UNCHANGED errorLog
  /\ UNCHANGED <<inputs, csvData, rowNumber, counters>>

Next2 ==
  \/ RowStart2
  \/ Summary2
  \/ \E response \in Responses : HttpResponse2(response)

SpecP2 == Init2 /\ [][Next2]_vars

(***************************************************************************)
(* src/index.js, processCSV: one POST per row to the endpoint of the       *)
(* command line.  batch is "row" at the head of the row loop of the 'end'  *)
(* handler (130), "http" and "sleep" at its two awaits, "done" after the   *)
(* summary.                                                                *)
(***************************************************************************)
(* Lines 60-70. *)
Coerce3(value) ==
  IF value = Str("null") \/ value = Str("") THEN Null
  ELSE IF value = Str("true") THEN Bool(TRUE)
  ELSE IF value = Str("false") THEN Bool(FALSE)
  ELSE IF ~IsNaN(ToNumber(value)) THEN ToNumber(value)
  ELSE value

(* Lines 46-83: a leaf `$name` gets the converted cell of the column name, *)
(* and stays as it is when the row has no such column.                     *)
replacePlaceholders3(template, rowData) ==
  [k \in DOMAIN template |->
     IF IsStr(template[k]) /\ StartsWith(template[k].s, "$")
          /\ Get(rowData, Substring(template[k].s, 1)) # Undef
       THEN Coerce3(rowData[Substring(template[k].s, 1)])
     ELSE template[k]]

(* The configuration has its payloadTemplate (97-99), --endpoint is given  *)
(* (demandOption, 27-32) and the stream has delivered its rows (123-126).  *)
Init3 ==
  /\ impl = "p3"
  /\ config \in { [payloadTemplate |->
                     [id |-> Str("$accountId"), name |-> Str("$accountName"),
                      note |-> Str("$missing")]],
                   [payloadTemplate |->
                     [p |-> Str("$price"), kind |-> Str("new")]] }
  /\ argv \in { [interactive |-> FALSE, delay |-> 0,
                  endpoint |-> Str("http://api/acct")],
                [interactive |-> FALSE, delay |-> 500,
                  endpoint |-> Str("http://api/acct")] }
  /\ batch = "row"
  /\ InitRows
  /\ loopData = <<>>

(* Lines 130-141: the next row is counted, its payload built and posted. *)
RowStart3 ==
  /\ impl = "p3" /\ batch = "row" /\ processedRows < Len(csvData)
  /\ processedRows' = processedRows + 1
  /\ batch' = "http"
  /\ pc' = [pc EXCEPT ![processedRows + 1] = "http"]
  /\ frame' = [frame EXCEPT ![processedRows + 1] =
                 [i |-> 1, j |-> 0, method |-> Str("POST"),
                  url |-> argv.endpoint,
                  data |-> replacePlaceholders3(config.payloadTemplate,
                                                csvData[processedRows + 1]),
                  before |-> EmptyObj, success |-> TRUE, errors |-> <<>>]]
  /\ calls' = [calls EXCEPT ![processedRows + 1] = Append(@,
                 [i |-> 1, j |-> 0, method |-> Str("POST"),
                  url |-> argv.endpoint,
                  data |-> replacePlaceholders3(config.payloadTemplate,
                                                csvData[processedRows + 1]),
                  before |-> EmptyObj, extracted |-> EmptyObj])]
  /\ UNCHANGED <<inputs, csvData, rowNumber, successfulRows, failedRows,
                 extractedData, decisions, results, errorLog>>

(* The post is answered: 143-153, the delay inside the try, or the catch   *)
(* of 154-161, after which the loop goes straight to the next row.         *)
HttpResponse3(response) ==
  /\ impl = "p3" /\ batch = "http"
  /\ IF response.ok
       THEN /\ pc' = [pc EXCEPT ![processedRows] = "succeeded"]
            /\ successfulRows' = successfulRows + 1
            /\ batch' = IF argv.delay > 0 /\ processedRows < Len(csvData)
                          THEN "sleep" ELSE "row"
            /\ UNCHANGED <<failedRows, frame, errorLog>>
     ELSE /\ pc' = [pc EXCEPT ![processedRows] = "failed"]
          /\ failedRows' = failedRows + 1
          /\ batch' = "row"
          /\ frame' = [frame EXCEPT ![processedRows].success = FALSE]
          /\ errorLog' = Append(errorLog,
                                ErrorRecord(processedRows, 1, processedRows, "",
                                            StatusCode(response),
                                            response.message))
          /\ UNCHANGED successfulRows
  /\ UNCHANGED <<inputs, csvData, rowNumber, processedRows, extractedData,
                 calls, decisions, results>>

(* The timer of 152 fires. *)
SleepDone3 ==
  /\ impl = "p3" /\ batch = "sleep"
  /\ batch' = "row"
  /\ UNCHANGED <<inputs, csvData, rowNumber, counters, pc, frame,
                 extractedData, calls, decisions, results, errorLog>>

(* The rows are exhausted: the summary (164-167). *)
Summary3 ==
  /\ impl = "p3" /\ batch = "row" /\ processedRows = Len(csvData)
  /\ batch' = "done"
  /\ UNCHANGED <<inputs, csvData, rowNumber, counters, pc, frame,
                 extractedData, calls, decisions, results, errorLog>>

Next3 ==
  \/ RowStart3
  \/ Summary3
  \/ \E response \in Responses : HttpResponse3(response)
  \/ SleepDone3

SpecP3 == Init3 /\ [][Next3]_vars

(***************************************************************************)
(* replacePlaceholders on its own, as part_001 (548-617) and src/index.js  *)
(* (46-83) have it: one call on a template, a row of one cell and the      *)
(* values extracted so far.  The cell is any text of at most MaxCellLen    *)
(* characters of a small alphabet, or one of the words the conversion      *)
(* knows.  batch is "call" before the call and "replaced" after it; the    *)
(* frame of the row holds what the call returned, success whether it       *)
(* returned at all.                                                        *)
(***************************************************************************)
MaxCellLen == 2

RECURSIVE Words(_)
Words(n) ==
  IF n = 0 THEN {""}
  ELSE Words(n - 1)
         \cup { w \o c : w \in Words(n - 1), c \in {"0", "7", " ", "a", "-", "$"} }

Cells == Words(MaxCellLen) \cup {"null", "true", "false", "007"}

InitReplace ==
  /\ impl \in {"p1", "p3"}
  /\ config \in { [payloadTemplate |-> [a |-> Str("$cell"), b |-> Str("fixed")]],
                   [payloadTemplate |-> [a |-> Str("$cell"), b |-> Str("$found")]] }
  /\ argv = [interactive |-> FALSE, delay |-> 0, endpoint |-> Undef]
  /\ csvData \in { <<[cell |-> Str(c)]>> : c \in Cells }
  /\ loopData = <<>>
  /\ batch = "call"
  /\ pc = <<"pending">>
  /\ frame = <<NoFrame>>
  /\ extractedData \in { <<EmptyObj>>, <<[found |-> Str("$9")]>>,
                          <<[found |-> Num(42)]>>, <<[found |-> Null]>>,
                          <<[cell |-> Str("x")]>> }
  /\ calls = << <<>> >>
  /\ decisions = << <<>> >>
  /\ results = <<>>
  /\ errorLog = <<>>
  /\ rowNumber = 0
  /\ processedRows = 0
  /\ successfulRows = 0
  /\ failedRows = 0

Replace ==
  /\ batch = "call"
  /\ batch' = "replaced"
  /\ frame' =
       [frame EXCEPT
          ![1] = [@ EXCEPT
                    !.data =
                      IF impl = "p3"
                        THEN replacePlaceholders3(config.payloadTemplate,
                                                  csvData[1])
                      ELSE replacePlaceholders(config.payloadTemplate,
                                               csvData[1], extractedData[1]).v,
                    !.success =
                      \/ impl = "p3"
                      \/ ~replacePlaceholders(config.payloadTemplate,
                                              csvData[1],
                                              extractedData[1]).throws]]
  /\ UNCHANGED <<inputs, csvData, rowNumber, counters, pc, extractedData,
                 calls, decisions, results, errorLog>>

SpecReplace == InitReplace /\ [][Replace]_vars

(***************************************************************************)
(* evaluateCondition on its own: part_000 is given a comparison and the    *)
(* extracted data, part_002 a {field, operator, value} and the row, whose  *)
(* cells are strings.                                                      *)
(***************************************************************************)
InitCondition ==
  /\ impl \in {"p0", "p2"}
  /\ config \in
       { IF impl = "p0" THEN Comparison(l, op, r) ELSE FieldCondition("v", op, r) :
           l \in {Str("$v"), Num(20)},
           op \in {">", ">=", "<", "<=", "==", "===", "!=", "!==", "exists"},
           r \in {Str("25"), Str("9"), Str("abc"), Str("b"), Str(""), Num(20),
                  Null, Bool(TRUE)} }
  /\ argv = [interactive |-> FALSE, delay |-> 0, endpoint |-> Undef]
  /\ csvData \in
       IF impl = "p0" THEN { <<EmptyObj>> }
       ELSE { <<[v |-> Str(c)]>> : c \in {"25", "9", "abc", "b", ""} }
              \cup { <<[w |-> Str("25")]>> }
  /\ extractedData \in
       IF impl = "p2" THEN { <<EmptyObj>> }
       ELSE { <<[v |-> x]>> : x \in {Str("25"), Str("9"), Str("abc"), Str("b"),
                                     Num(7), Null} }
              \cup { <<EmptyObj>> }
  /\ loopData = <<>>
  /\ batch = "call"
  /\ pc = <<"pending">>
  /\ frame = <<NoFrame>>
  /\ calls = << <<>> >>
  /\ decisions = << <<>> >>
  /\ results = <<>>
  /\ errorLog = <<>>
  /\ rowNumber = 0
  /\ processedRows = 0
  /\ successfulRows = 0
  /\ failedRows = 0

(* The call of evaluateCondition; what it returns is recorded as the       *)
(* decision on the step.                                                   *)
Evaluate ==
  /\ batch = "call"
  /\ batch' = "evaluated"
  /\ decisions' =
       << <<Decision(1,
                     IF impl = "p0"
                       THEN evaluateCondition(config, extractedData[1])
                     ELSE evaluateConditionRow(config, csvData[1]),
                     extractedData[1])>> >>
  /\ UNCHANGED <<inputs, csvData, rowNumber, counters, pc, frame,
                 extractedData, calls, results, errorLog>>

SpecCondition == InitCondition /\ [][Evaluate]_vars

(***************************************************************************)
(* part_001 on rows that have the embedded-array column, and               *)
(* replacePlaceholders on templates with dotted names.  The first is a run *)
(* of processCSV on a configuration of one request whose payload takes the *)
(* column; the second a call of the function on its own, the extracted     *)
(* data holding nested objects, null, a number, a string or a field whose  *)
(* name has a dot, the row a column of that name or none.                  *)
(***************************************************************************)
InitFields ==
  /\ impl = "p1"
  /\ loopData = <<>>
  /\ \/ /\ batch = "read"
        /\ config \in
             { [requests |-> step \o
                  <<Step("Items", Str("POST"),
                         Str("http://api/$accountId/$accountName$rowNumber/$$x/$offeringProducts"),
                         [items |-> Str("$offeringProducts"),
                          id |-> Str("$accountId")],
                         NoCondition, FALSE, NoExtract)>>] :
                 step \in {<<>>, <<Steps1.Create>>} }
        /\ argv \in Argvs1
        /\ \E n \in 1..MaxRows :
             csvData = [k \in 1..n |->
                          Put(PrimaryRow(k), "offeringProducts",
                              Str(IF k % 2 = 1 THEN "[1,2" ELSE "a,b"))]
        /\ extractedData = [r \in Rows |-> EmptyObj]
     \/ /\ batch = "call"
        /\ config = [payloadTemplate |->
                       [items |-> Str("$offeringProducts"),
                        deep |-> Str("$found.id"),
                        deeper |-> Str("$found.data.id"),
                        far |-> Str("$found.data.id.x")]]
        /\ argv = [interactive |-> FALSE, delay |-> 0, endpoint |-> Undef]
        /\ csvData \in
             { <<[offeringProducts |-> Str(c)] @@ extra>> :
                 c \in {"1,2", "[7]", " [ \"a\", true ] ", "a,b", "[1,2", "1,2]",
                        "07", " ", ""},
                 extra \in {EmptyObj, ("found.id" :> Str("5")),
                            ("found.data.id" :> Str("x y"))} }
             \cup { <<EmptyObj>> }
        /\ extractedData \in
             { <<EmptyObj>>, <<[found |-> Obj("{id:7}")]>>,
               <<[found |-> Obj("{data:{id:7}}")]>>, <<[found |-> Obj("{id:null}")]>>,
               <<[found |-> Obj("{}")]>>, <<[found |-> Null]>>,
               <<[found |-> Num(42)]>>, <<[found |-> Str("text")]>>,
               <<("found.id" :> Str("flat"))>>,
               <<[offeringProducts |-> Str("1,2")]>> }
  /\ pc = [r \in Rows |-> "pending"]
  /\ frame = [r \in Rows |-> NoFrame]
  /\ calls = [r \in Rows |-> <<>>]
  /\ decisions = [r \in Rows |-> <<>>]
  /\ results = <<>>
  /\ errorLog = <<>>
  /\ rowNumber = 0
  /\ processedRows = 0
  /\ successfulRows = 0
  /\ failedRows = 0

SpecFields == InitFields /\ [][Replace \/ Next1]_vars

(***************************************************************************)
(* part_000 and part_001 on a configuration of one step, written in the    *)
(* single-request format (the step at the top level, no requests) or as a  *)
(* requests array of that one step.                                        *)
(***************************************************************************)
InitLegacy ==
  \/ /\ impl = "p0"
     /\ config \in {Steps0.Create, [requests |-> <<Steps0.Create>>]}
     /\ argv \in Argvs0
     /\ batch = "streaming"
     /\ InitRows
  \/ /\ impl = "p1"
     /\ config \in {Steps1.Create, [requests |-> <<Steps1.Create>>],
                     Steps1.NoEndpoint}
     /\ argv \in Argvs1
     /\ batch = IF ValidConfig1(config) THEN "read" ELSE "fatal"
     /\ InitRows
     /\ loopData = <<>>

SpecLegacy == InitLegacy /\ [][Next0 \/ Next1]_vars

(***************************************************************************)
(* The four programs side by side.                                         *)
(***************************************************************************)
Init == Init0 \/ Init1 \/ Init2 \/ Init3

Next == Next0 \/ Next1 \/ Next2 \/ Next3

Spec == Init /\ [][Next]_vars

(***************************************************************************)
(* part_000 and part_001 under the assumption that what a handler awaits   *)
(* arrives: the stream delivers its rows and its end, every call is        *)
(* answered, every timer fires and every prompt is answered.  The handler  *)
(* of part_001 is one thread of control, which goes on whenever it can.    *)
(* In part_000 every row has a handler of its own and the stream goes on   *)
(* beside them: a row that awaits something is always able to receive it,  *)
(* so that weak fairness of its three arrivals says that the row does not  *)
(* await for ever; the condition is written with the states in which the  *)
(* row awaits in the place of the enabledness of the arrivals.             *)
(***************************************************************************)
Fairness ==
  /\ WF_vars(EndEvent1 \/ RowStart1 \/ Summary1)
  /\ WF_vars(\E response \in Responses : HttpResponse1(response))
  /\ WF_vars(SleepDone1)
  /\ WF_vars(\E answer \in {"y", "N", "n"} : Answer1(answer))
  /\ \/ []<>(~(impl = "p0" /\ batch = "streaming"))
     \/ []<><<DataEvent0 \/ EndEvent0>>_vars
  /\ \A r \in 1..MaxRows :
       \/ []<>(~(impl = "p0" /\ r \in Rows /\ pc[r] \in {"http", "ask", "sleep"}))
       \/ []<><< /\ r \in Rows
                 /\ \/ \E response \in Responses : HttpResponse0(r, response)
                    \/ \E proceed \in {"y", "Y", "n"} : Answer0(r, proceed)
                    \/ SleepDone0(r) >>_vars

FairSpec == (Init0 \/ Init1) /\ [][Next0 \/ Next1]_vars /\ Fairness

(***************************************************************************)
(* Properties.                                                             *)
(***************************************************************************)
IsPlaceholder(leaf) == IsStr(leaf) /\ StartsWith(leaf.s, "$")
NameOf(leaf) == Substring(leaf.s, 1)
Contains(s, sub) ==
  \E p \in 1..(Len(s) - Len(sub) + 1) : SubSeq(s, p, p + Len(sub) - 1) = sub

(* The names of the `$name` tokens of a URL template. *)
UrlTokens(urlTemplate) ==
  { SubSeq(urlTemplate, p + 1, NameEnd(urlTemplate, p + 1)) :
      p \in { q \in 1..(Len(urlTemplate) - 1) :
                /\ Ch(urlTemplate, q) = "$"
                /\ (q = 1 \/ Ch(urlTemplate, q - 1) # "$")
                /\ IsWordChar(Ch(urlTemplate, q + 1)) } }

(* The fields the extraction of step i writes. *)
FieldsOf(i) ==
  { Requests[i].extractFromResponse.specs[m].field :
      m \in 1..Len(Requests[i].extractFromResponse.specs) }

(* The fields written by the calls of row r before its k-th call. *)
OwnFields(r, k) == UNION { FieldsOf(calls[r][m].i) : m \in 1..(k - 1) }

(* C1: once a step of a row has failed the row is Failed and no further   *)
(* HTTP call is issued for it, neither by a later step nor by a later      *)
(* repetition of a loop step: the row has made no call since the failure   *)
(* was reported.                                                           *)
C1_NothingAfterFailure ==
  \A n \in 1..Len(errorLog) :
    /\ Len(calls[errorLog[n].row]) = errorLog[n].issued
    /\ pc[errorLog[n].row] \in Terminal => pc[errorLog[n].row] = "failed"

(* C2: in non-interactive mode a batch that has come to its end has taken  *)
(* every row of the table to a terminal state, whatever the outcomes of    *)
(* the rows before it.                                                     *)
C2_BatchCompletes ==
  (~argv.interactive /\ batch = "done") =>
    /\ \A r \in Rows : pc[r] \in Terminal
    /\ impl = "p1" => processedRows = Len(csvData)
                       /\ successfulRows + failedRows = Len(csvData)
    /\ impl = "p2" => Len(results) = Len(csvData)

C2_Witness ==
  /\ impl = "p1" /\ ~argv.interactive /\ batch = "done"
  /\ Len(csvData) = 2 /\ pc[1] = "failed" /\ pc[2] = "succeeded"

(* C3: in part_000 at most one HTTP call is in flight, and a row issues    *)
(* its first call only after the row before it is terminal.                *)
C3_OneRowAtATime ==
  impl = "p0" =>
    /\ Cardinality({r \in Rows : pc[r] = "http"}) <= 1
    /\ \A r \in Rows : (r > 1 /\ calls[r] # <<>>) => pc[r - 1] \in Terminal

(* C4: every call of step i is resolved with the values extracted by the   *)
(* steps before i: a value extracted before step i began replaces its      *)
(* token in the payload and in the URL, and nothing extracted by step i    *)
(* itself (an earlier repetition of a loop step) changes what the call     *)
(* carries.                                                                *)
Available(c, request) ==
  \A name \in {n \in DOMAIN c.before : ~IsNullish(c.before[n])} :
    /\ ~Contains(c.url.s, "$" \o name)
    /\ c.data # Undef =>
         \A key \in DOMAIN request.payloadTemplate :
           request.payloadTemplate[key] = Str("$" \o name)
             => c.data[key] = c.before[name]

NotFromOwnStep(c, request, source) ==
  impl = "p0" =>
    /\ c.data = replacePlaceholders(request.payloadTemplate, source, c.before).v
    /\ c.url = replaceUrlPlaceholders(request.endpoint, Spread(source, c.before)).v

C4_ExtractedVisibleLater ==
  \A r \in Rows : \A k \in 1..Len(calls[r]) :
    /\ Available(calls[r][k], Requests[calls[r][k].i])
    /\ NotFromOwnStep(calls[r][k], Requests[calls[r][k].i],
                      IF calls[r][k].j = 0 THEN csvData[r]
                      ELSE loopData[calls[r][k].j])

(* C5: the extracted values of a row are empty when its pipeline starts    *)
(* and hold, at every condition and every call, only fields written by     *)
(* the row's own earlier calls.                                            *)
C5_NoSharing ==
  \A r \in Rows :
    /\ DOMAIN extractedData[r] \subseteq OwnFields(r, Len(calls[r]) + 1)
    /\ \A k \in 1..Len(calls[r]) :
         DOMAIN calls[r][k].extracted \subseteq OwnFields(r, k)
    /\ \A k \in 1..Len(decisions[r]) :
         /\ DOMAIN decisions[r][k].extracted \subseteq OwnFields(r, Len(calls[r]) + 1)
         /\ k = 1 => decisions[r][k].extracted = EmptyObj

C5_Witness ==
  /\ impl = "p0" /\ Len(csvData) = 2
  /\ pc[1] = "http" /\ extractedData[1] # EmptyObj
  /\ pc[2] = "http" /\ calls[2][1].extracted = EmptyObj

(* C6: in part_001 a `$name` of the payload or of the endpoint gets the    *)
(* value of the extracted layer when the name is there, else that of the   *)
(* row's column, and stays as it is when the name is in neither.           *)
LayeredLeaf(leaf, row, ed) ==
  IF ~IsPlaceholder(leaf) THEN leaf
  ELSE IF NameOf(leaf) \in DOMAIN ed THEN ed[NameOf(leaf)]
  ELSE IF NameOf(leaf) \in DOMAIN row THEN Coerce(row[NameOf(leaf)]).v
  ELSE leaf

LayeredContext(row, ed) ==
  [n \in (DOMAIN row) \cup (DOMAIN ed) |->
     Str(JsString(IF n \in DOMAIN ed THEN ed[n] ELSE row[n]))]

C6_ResolutionOrder ==
  impl = "p1" =>
    \A r \in Rows : \A k \in 1..Len(calls[r]) :
      LET c == calls[r][k]
          request == Requests[c.i]
      IN /\ c.url = Str(ReplaceFrom(endpointTemplate(request).s, 1,
                                    LayeredContext(csvData[r], c.extracted)))
         /\ c.data # Undef =>
              \A key \in DOMAIN request.payloadTemplate :
                c.data[key] = LayeredLeaf(request.payloadTemplate[key],
                                          csvData[r], c.extracted)

(* C7: in part_001 a placeholder whose name is in neither layer stays in   *)
(* the payload and in the URL of the call, and no row fails before a call  *)
(* for that reason alone: a row that fails while a request is prepared has *)
(* an invalid endpoint or a leaf whose own value cannot be converted.      *)
MissingBoth(name, row, ed) ==
  Get(row, name) = Undef /\ Get(ed, name) = Undef

TokensKept(c, request, row) ==
  /\ \A name \in UrlTokens(endpointTemplate(request).s) :
       MissingBoth(name, row, c.extracted) => Contains(c.url.s, "$" \o name)
  /\ c.data # Undef =>
       \A key \in DOMAIN request.payloadTemplate :
         (/\ IsPlaceholder(request.payloadTemplate[key])
          /\ MissingBoth(NameOf(request.payloadTemplate[key]), row, c.extracted))
           => c.data[key] = request.payloadTemplate[key]

PreparationFailed(e) ==
  \A k \in 1..Len(calls[e.row]) : calls[e.row][k].i # e.step

C7_UnresolvedIsNotFatal ==
  impl = "p1" =>
    /\ \A r \in Rows : \A k \in 1..Len(calls[r]) :
         TokensKept(calls[r][k], Requests[calls[r][k].i], csvData[r])
    /\ \A n \in 1..Len(errorLog) :
         PreparationFailed(errorLog[n]) =>
           LET request == Requests[errorLog[n].step]
               row == csvData[errorLog[n].row]
               ed == extractedData[errorLog[n].row]
           IN \/ InvalidEndpoint(endpointTemplate(request))
              \/ \E key \in DOMAIN request.payloadTemplate :
                   /\ IsPlaceholder(request.payloadTemplate[key])
                   /\ ~MissingBoth(NameOf(request.payloadTemplate[key]), row, ed)
                   /\ ResolveLeaf(request.payloadTemplate[key], row, ed).throws

C7_Witness ==
  /\ impl = "p1"
  /\ \E r \in Rows : \E k \in 1..Len(calls[r]) :
       /\ calls[r][k].data # Undef
       /\ "note" \in DOMAIN calls[r][k].data
       /\ calls[r][k].data["note"] = Str("$missing")
       /\ Contains(calls[r][k].url.s, "$missing")

(* C8: in part_000 and part_002 the steps of a row are considered one by   *)
(* one in order; a step whose condition is false issues no call and the    *)
(* next step is considered; a row no step of which fails ends Succeeded    *)
(* with all its steps considered.                                          *)
C8_SkipOnFalse ==
  impl \in {"p0", "p2"} =>
    \A r \in Rows :
      /\ Len(decisions[r]) <= Len(Requests)
      /\ \A k \in 1..Len(decisions[r]) : decisions[r][k].i = k
      /\ \A k \in 1..Len(calls[r]) :
           /\ calls[r][k].i <= Len(decisions[r])
           /\ decisions[r][calls[r][k].i].met
      /\ pc[r] = "succeeded" => Len(decisions[r]) = Len(Requests)
      /\ (pc[r] \in Terminal /\ \A n \in 1..Len(errorLog) : errorLog[n].row # r)
           => pc[r] = "succeeded"

C8_Witness ==
  \E r \in Rows :
    /\ pc[r] = "succeeded"
    /\ \E k \in 1..Len(decisions[r]) :
         /\ ~decisions[r][k].met
         /\ \E m \in 1..Len(calls[r]) : calls[r][m].i > k

(* C9: in part_000 the condition of a step is decided with its `$name`     *)
(* operands looked up in the extracted values first and in the row's       *)
(* columns next.                                                           *)
C9_OperandLookupOrder ==
  impl = "p0" =>
    \A r \in Rows : \A k \in 1..Len(decisions[r]) :
      decisions[r][k].met =
        evaluateCondition(Requests[decisions[r][k].i].condition,
                          Spread(csvData[r], decisions[r][k].extracted))

(* C10: a step whose condition has an operator that is not a recognised    *)
(* one is executed.                                                        *)
RecognisedOperators ==
  {">", ">=", "<", "<=", "==", "===", "!=", "!==", "exists"}

C10_UnknownOperatorIsTrue ==
  \A r \in Rows : \A k \in 1..Len(decisions[r]) :
    (/\ Requests[decisions[r][k].i].condition.present
     /\ Requests[decisions[r][k].i].condition.operator \notin RecognisedOperators)
      => decisions[r][k].met

(* C11: in evaluateCondition of part_000 a step with operator === is       *)
(* executed exactly when its two operands, as resolved, have the same type *)
(* and the same value, and a step with !== exactly when they have not: a   *)
(* string operand and a number operand are never ===-equal.                *)
C11_StrictIsTypeAndValue ==
  impl = "p0" =>
    \A r \in Rows : \A k \in 1..Len(decisions[r]) :
      LET condition == Requests[decisions[r][k].i].condition
          left == OperandValue(condition.left, decisions[r][k].extracted)
          right == OperandValue(condition.right, decisions[r][k].extracted)
      IN (condition.present /\ condition.type = "comparison") =>
           /\ condition.operator = "===" =>
                (decisions[r][k].met <=> StrictEquals(left, right))
           /\ condition.operator = "!==" =>
                (decisions[r][k].met <=> ~StrictEquals(left, right))

(* The call of row r is answered by response. *)
Answered(r, response) ==
  CASE impl = "p0" -> HttpResponse0(r, response)
    [] impl = "p1" -> r = processedRows /\ HttpResponse1(response)
    [] OTHER -> r = Len(results) + 1 /\ HttpResponse2(response)

(* The extraction specs the program applies to the answer of a request:    *)
(* part_001 reads one {field, jsonPath}, part_002 an array of them.        *)
AppliedSpecs(request) ==
  IF \/ impl = "p1" /\ request.extractFromResponse.kind # "single"
     \/ impl = "p2" /\ request.extractFromResponse.kind # "array"
    THEN {}
  ELSE { request.extractFromResponse.specs[m] :
           m \in 1..Len(request.extractFromResponse.specs) }

(* The value at the end of a dot-path of a response body. *)
AtPath(data, jsonPath) ==
  Reduce(IF impl = "p0" THEN BodyRoot(data) ELSE data, Split(jsonPath, "."))

(* C12: when a call is answered and the path of an extraction spec meets a *)
(* missing key or a null value in the body, the field of the spec is set   *)
(* to null in the extracted values of the row, the row does not fail and   *)
(* no failure is reported.                                                 *)
C12_MissingPathGivesNull ==
  [][\A r \in Rows : \A response \in Responses :
       (pc[r] = "http" /\ response.ok /\ Answered(r, response)) =>
         \A spec \in AppliedSpecs(Requests[frame[r].i]) :
           IsNullish(AtPath(response.data, spec.jsonPath)) =>
             /\ spec.field \in DOMAIN extractedData'[r]
             /\ extractedData'[r][spec.field] = Null
             /\ pc'[r] # "failed"
             /\ errorLog' = errorLog]_vars

(* C13: when a call of a step that declares an array of extraction specs   *)
(* is answered, every spec whose path exists in the body has its field     *)
(* written with the value found, whatever the other specs of the step      *)
(* find.                                                                   *)
C13_SpecsIndependent ==
  [][\A r \in Rows : \A response \in Responses :
       (pc[r] = "http" /\ response.ok /\ Answered(r, response)) =>
         LET extract == Requests[frame[r].i].extractFromResponse
         IN extract.kind = "array" =>
              \A m \in 1..Len(extract.specs) :
                AtPath(response.data, extract.specs[m].jsonPath) # Undef =>
                  /\ extract.specs[m].field \in DOMAIN extractedData'[r]
                  /\ extractedData'[r][extract.specs[m].field] =
                       AtPath(response.data, extract.specs[m].jsonPath)]_vars

(* A string with a character that is no blank. *)
NonBlankString(v) == IsStr(v) /\ Trim(v.s) # ""

(* The override has been supplied on the command line. *)
Supplied(v) == v # Undef /\ v # Str("")

(* The report of a configuration error (815). *)
IsConfigError(e) == StartsWith(e.message, "Missing or invalid \"endpoint\"")

(* The calls of part_001 are made at the override when one is supplied. *)
OverrideUsed ==
  \A r \in Rows : \A k \in 1..Len(calls[r]) :
    Supplied(argv.endpoint) =>
      calls[r][k].url =
        Str(ReplaceFrom(argv.endpoint.s, 1,
                        Spread(csvData[r], calls[r][k].extracted)))

(* C14, as claimed: in part_001 every call is made at the override when    *)
(* one is supplied, and a step is reported with a configuration error only *)
(* when neither the override nor its own endpoint is a non-blank string.   *)
C14_FailsOnlyWhenNeither ==
  impl = "p1" =>
    /\ OverrideUsed
    /\ \A n \in 1..Len(errorLog) :
         IsConfigError(errorLog[n]) =>
           /\ ~NonBlankString(argv.endpoint)
           /\ ~NonBlankString(Requests[errorLog[n].step].endpoint)

(* The template in use: the override when supplied, else the step's own. *)
TemplateInUse(request) ==
  IF Supplied(argv.endpoint) THEN argv.endpoint ELSE request.endpoint

(* C14, amended: in part_001 every call is made at the override when one   *)
(* is supplied and at the step's own endpoint otherwise, and a step is     *)
(* reported with a configuration error exactly when the template in use    *)
(* is not a non-blank string: such a step makes no call, and every failure *)
(* of a step with a usable template is of another kind.                    *)
C14_OverrideReplaces ==
  impl = "p1" =>
    /\ OverrideUsed
    /\ \A r \in Rows : \A k \in 1..Len(calls[r]) :
         /\ NonBlankString(TemplateInUse(Requests[calls[r][k].i]))
         /\ calls[r][k].url =
              Str(ReplaceFrom(TemplateInUse(Requests[calls[r][k].i]).s, 1,
                              Spread(csvData[r], calls[r][k].extracted)))
    /\ \A n \in 1..Len(errorLog) :
         IsConfigError(errorLog[n]) <=>
           ~NonBlankString(TemplateInUse(Requests[errorLog[n].step]))

C14_Witness ==
  /\ impl = "p1" /\ Supplied(argv.endpoint)
  /\ \E r \in Rows : \E k \in 1..Len(calls[r]) :
       /\ ~NonBlankString(Requests[calls[r][k].i].endpoint)
       /\ calls[r][k].url = Str("http://alt/101")

SupportedVerbs == {"GET", "POST", "PUT", "PATCH", "DELETE"}

VerbOf(method) ==
  IF IsStr(method) /\ toUpperCase(method.s) \in SupportedVerbs
    THEN Str(toUpperCase(method.s))
  ELSE Str("POST")

(* C15: in part_000 and part_001 every call is made with the step's method *)
(* when that is one of GET, POST, PUT, PATCH and DELETE and with POST      *)
(* otherwise, and a GET or DELETE call has no body.                        *)
C15_MethodAndBody ==
  impl \in {"p0", "p1"} =>
    \A r \in Rows : \A k \in 1..Len(calls[r]) :
      /\ calls[r][k].method = VerbOf(Requests[calls[r][k].i].method)
      /\ calls[r][k].method \in {Str("GET"), Str("DELETE")} =>
           calls[r][k].data = Undef

(* The repetitions of loop step i that row r has called, in call order. *)
Repetitions(r, i) ==
  SelectSeq([k \in 1..Len(calls[r]) |->
               IF calls[r][k].i = i THEN calls[r][k].j ELSE 0],
            LAMBDA j : j > 0)

(* The leaf of a repetition's payload for a `$name` found in layer. *)
ResolvedFrom(value, layer, name) ==
  value \in {layer[name], Coerce(layer[name]).v}

(* C16: in part_000 and part_002 a loop step, when no call is declined,    *)
(* calls once per row of the secondary table in the order of the table     *)
(* (all of them once the row has succeeded), and the payload of each       *)
(* repetition has the column of its secondary row for a `$name` of that    *)
(* row and the column of the primary row for a `$name` found only there.   *)
C16_LoopStepContext ==
  impl \in {"p0", "p2"} =>
    \A r \in Rows : \A i \in 1..Len(Requests) :
      Requests[i].loopOver =>
        /\ ~argv.interactive =>
             /\ \A n \in 1..Len(Repetitions(r, i)) : Repetitions(r, i)[n] = n
             /\ pc[r] = "succeeded" /\ decisions[r][i].met =>
                  Len(Repetitions(r, i)) = Len(loopData)
        /\ \A k \in 1..Len(calls[r]) :
             calls[r][k].i = i =>
               \A key \in DOMAIN Requests[i].payloadTemplate :
                 LET leaf == Requests[i].payloadTemplate[key]
                     loopRow == loopData[calls[r][k].j]
                 IN IsPlaceholder(leaf) =>
                      IF NameOf(leaf) \in DOMAIN loopRow
                        THEN ResolvedFrom(calls[r][k].data[key], loopRow, NameOf(leaf))
                      ELSE IF NameOf(leaf) \in DOMAIN calls[r][k].extracted
                        THEN TRUE
                      ELSE NameOf(leaf) \in DOMAIN csvData[r] =>
                        ResolvedFrom(calls[r][k].data[key], csvData[r], NameOf(leaf))

(* The outcomes pushed for row r: part_000 pushes them as the handlers     *)
(* end, part_002 in the order of the rows.                                 *)
OutcomesOf(r) ==
  IF impl = "p0" THEN {k \in 1..Len(results) : results[k].row = r}
  ELSE {k \in 1..Len(results) : k = r}

(* The outcome names the step and describes the error. *)
NamesStep(outcome, name) ==
  IF impl = "p0"
    THEN IsStr(outcome.error) /\ Contains(outcome.error.s, name)
  ELSE \E m \in 1..Len(outcome.errors) :
         outcome.errors[m].request = name /\ outcome.errors[m].error # ""

(* C17: in part_000 and part_002 a row has one outcome once it is terminal *)
(* and none before, and the outcome of a failed row is a failure that      *)
(* names the step reported as failed and describes the error.              *)
C17_OneOutcomePerRow ==
  impl \in {"p0", "p2"} =>
    /\ \A r \in Rows :
         Cardinality(OutcomesOf(r)) = IF pc[r] \in Terminal THEN 1 ELSE 0
    /\ \A n \in 1..Len(errorLog) :
         pc[errorLog[n].row] \in Terminal =>
           \A k \in OutcomesOf(errorLog[n].row) :
             /\ ~results[k].success
             /\ NamesStep(results[k], Requests[errorLog[n].step].name)

(* The failure records written for row r. *)
RecordsOf(r) == {n \in 1..Len(errorLog) : errorLog[n].row = r}

(* C18: in part_000, whatever the interleaving of the handlers, a failed   *)
(* row has exactly one failure record and a row that has not failed none;  *)
(* the record has the row's own number, the name of the step that failed   *)
(* and the HTTP status or "N/A", and the outcome of the row has the row's  *)
(* own number too.                                                         *)
C18_FailureRecordOfRow ==
  impl = "p0" =>
    \A r \in Rows :
      /\ Cardinality(RecordsOf(r)) = IF pc[r] = "failed" THEN 1 ELSE 0
      /\ \A n \in RecordsOf(r) :
           /\ errorLog[n].rowNumber = r
           /\ errorLog[n].requestName = Requests[errorLog[n].step].name
           /\ IsNum(errorLog[n].statusCode) \/ errorLog[n].statusCode = Str("N/A")
      /\ \A k \in OutcomesOf(r) : results[k].rowNumber = r

(* C19: the configured delay is awaited only once the current row is       *)
(* terminal: no row of part_000 waits for the timer while its pipeline is  *)
(* under way, and part_001 waits for it only between two rows.             *)
C19_DelayOnlyBetweenRows ==
  /\ \A r \in Rows : pc[r] # "sleep"
  /\ (impl = "p1" /\ batch = "sleep") =>
       /\ processedRows >= 1
       /\ \A r \in 1..processedRows : pc[r] \in Terminal
       /\ \A r \in Rows : r > processedRows => pc[r] = "pending"

(* The prompt of row r is answered with a refusal. *)
Declined(r) == \E proceed \in {"n"} : Answer0(r, proceed)

(* C20: in part_000 a refusal at the prompt of a call passes over that     *)
(* call alone: no call is made, no failure is reported and no outcome      *)
(* pushed for a failure, and the row goes on with the next repetition of   *)
(* the loop step when there is one and with the steps after it otherwise,  *)
(* up to its next prompt or to its successful end.                         *)
C20_DeclineSkipsOneCall ==
  [][\A r \in Rows :
       (impl = "p0" /\ pc[r] = "ask" /\ Declined(r)) =>
         /\ calls'[r] = calls[r]
         /\ errorLog' = errorLog
         /\ pc'[r] \in {"ask", "succeeded"}
         /\ \A k \in 1..Len(results') : results'[k].row = r => results'[k].success
         /\ IF frame[r].j > 0 /\ frame[r].j < Len(loopData)
              THEN /\ pc'[r] = "ask"
                   /\ frame'[r].i = frame[r].i
                   /\ frame'[r].j = frame[r].j + 1
            ELSE /\ pc'[r] = "ask" =>
                      /\ frame'[r].i > frame[r].i
                      /\ Len(decisions'[r]) = frame'[r].i
                 /\ pc'[r] = "succeeded" =>
                      Len(decisions'[r]) = Len(Requests)]_vars

C20_Witness ==
  /\ impl = "p0" /\ argv.interactive
  /\ \E r \in Rows :
       /\ pc[r] = "succeeded"
       /\ Len(calls[r]) = 2
       /\ calls[r][1].i = 1 /\ calls[r][1].j = 2
       /\ calls[r][2].i = 2

(* C21: in the interactive mode of part_001 the prompt is put only once    *)
(* the current row is terminal, and an answer of n or N ends the row loop: *)
(* no row changes, no call is made, and nothing happens to any row once    *)
(* the loop is left.                                                       *)
C21_DeclineHaltsAfterRow ==
  [][/\ \A answer \in {"y", "N", "n"} :
          (Answer1(answer) /\ toLowerCase(answer) = "n") =>
            /\ pc[processedRows] \in Terminal
            /\ batch' = "done"
            /\ pc' = pc /\ calls' = calls /\ processedRows' = processedRows
     /\ (impl = "p1" /\ batch = "done") =>
          (pc' = pc /\ calls' = calls /\ processedRows' = processedRows
             /\ batch' = "done")]_vars

C21_Witness ==
  /\ impl = "p1" /\ argv.interactive /\ batch = "done"
  /\ processedRows < Len(csvData)
  /\ pc[processedRows] \in Terminal
  /\ pc[processedRows + 1] = "pending" /\ calls[processedRows + 1] = <<>>

(* C22: whenever the batch of part_001 ends, with all rows processed, on   *)
(* the operator's refusal or for want of rows, the summary has been        *)
(* printed, and the rows it counts as processed are those it counts as     *)
(* succeeded and those it counts as failed.                                *)
C22_SummaryAlwaysProduced ==
  impl = "p1" =>
    /\ batch # "returned"
    /\ batch = "done" => processedRows = successfulRows + failedRows

(* The configuration holds one step, at the top level or as the only       *)
(* element of requests; TheStep is that step.                              *)
SingleStep ==
  IF "requests" \in DOMAIN config THEN Len(config.requests) = 1
  ELSE "payloadTemplate" \in DOMAIN config
TheStep ==
  IF "requests" \in DOMAIN config THEN config.requests[1] ELSE config

(* The endpoint template of the one step in the program that runs. *)
StepEndpoint ==
  IF impl = "p1" THEN endpointTemplate(TheStep) ELSE TheStep.endpoint

(* C23: a configuration in the single-request format is accepted and runs *)
(* as the list of that one step does.  Both forms are described by what    *)
(* the step alone determines: the run is not refused, every row that has   *)
(* begun has issued the one call of the step, with the URL and the body    *)
(* resolved from the row, and a row that succeeded holds what the step     *)
(* extracts from a response.  (A row whose endpoint is unusable issues no  *)
(* call and fails, in both forms; the runs of part_000 in which the        *)
(* operator is asked before each call are set aside.)                      *)
C23_LegacyLikeOneStep ==
  (impl \in {"p0", "p1"} /\ SingleStep /\ Truthy(TheStep.endpoint)
     /\ (impl = "p0" => ~argv.interactive)) =>
    /\ batch # "fatal"
    /\ \A r \in Rows :
         pc[r] # "pending" =>
           IF impl = "p1" /\ InvalidEndpoint(StepEndpoint)
             THEN calls[r] = <<>> /\ pc[r] = "failed"
           ELSE /\ Len(calls[r]) = 1
                /\ calls[r][1].i = 1 /\ calls[r][1].j = 0
                /\ calls[r][1].url =
                     replaceUrlPlaceholders(StepEndpoint, csvData[r]).v
                /\ calls[r][1].data =
                     replacePlaceholders(TheStep.payloadTemplate, csvData[r],
                                         EmptyObj).v
                /\ pc[r] = "succeeded" =>
                     \E response \in Responses :
                       /\ response.ok
                       /\ extractedData[r] =
                            IF impl = "p1"
                              THEN extractFromResponse1(TheStep, response.data,
                                                        EmptyObj)
                            ELSE extractFromResponse0(TheStep, response.data,
                                                      EmptyObj)

(* C24: in part_001 a request without a usable endpoint (none, not a       *)
(* string, or blank, the override of the command line considered) makes    *)
(* the run end before its first row: no row is begun, no call is made and  *)
(* no row is counted as failed.                                            *)
C24_ConfigErrorIsFatal ==
  (impl = "p1"
     /\ \E k \in 1..Len(Requests) :
          InvalidEndpoint(endpointTemplate(Requests[k]))) =>
    /\ \A r \in Rows : pc[r] = "pending" /\ calls[r] = <<>>
    /\ processedRows = 0 /\ failedRows = 0

(* The text is a decimal numeral, with or without a sign, blanks around it *)
(* set aside; NumeralValue is the number it denotes.                       *)
IsNumeral(s) ==
  \/ AllDigits(Trim(s))
  \/ /\ Len(Trim(s)) > 1 /\ Ch(Trim(s), 1) \in {"-", "+"}
     /\ AllDigits(Substring(Trim(s), 1))
NumeralValue(s) ==
  IF AllDigits(Trim(s)) THEN DigitsValue(Trim(s))
  ELSE IF Ch(Trim(s), 1) = "-" THEN 0 - DigitsValue(Substring(Trim(s), 1))
  ELSE DigitsValue(Substring(Trim(s), 1))

(* What the conversion of a cell is to give. *)
ExpectedCell(s) ==
  IF s \in {"", "null"} THEN Null
  ELSE IF s = "true" THEN Bool(TRUE)
  ELSE IF s = "false" THEN Bool(FALSE)
  ELSE IF IsNumeral(s) THEN Num(NumeralValue(s))
  ELSE Str(s)

(* C25: a placeholder filled from a cell of the row gets null for an empty *)
(* cell or the text null, the boolean for true and false, the number for a *)
(* cell that reads as a number, and the text of the cell in every other    *)
(* case.                                                                   *)
C25_CellCoercion ==
  (batch = "replaced" /\ "cell" \notin DOMAIN extractedData[1]) =>
    /\ frame[1].success
    /\ frame[1].data.a = ExpectedCell(csvData[1].cell.s)

(* C26: the conversion of part_001 applied to a value it has produced from *)
(* a cell (null, a boolean, a number or a string) gives that value again.  *)
C26_CoercionIdempotent ==
  (impl = "p1" /\ batch = "replaced" /\ "cell" \notin DOMAIN extractedData[1]) =>
    Coerce(frame[1].data.a) = Returns(frame[1].data.a)

(* Every placeholder of the template of the call is found in the extracted *)
(* values or in the row.                                                   *)
AllResolvable ==
  \A k \in DOMAIN config.payloadTemplate :
    IsPlaceholder(config.payloadTemplate[k]) =>
      ~MissingBoth(NameOf(config.payloadTemplate[k]), csvData[1],
                   extractedData[1])

(* The value a name stands for: the extracted one before the row's. *)
LayeredValue(name) ==
  IF Get(extractedData[1], name) # Undef THEN extractedData[1][name]
  ELSE csvData[1][name]

(* C27: when every placeholder of the template is resolvable, no leaf of   *)
(* the payload that replacePlaceholders of part_001 returns is a string    *)
(* beginning with `$`.                                                     *)
C27_NoDollarLeaf ==
  (impl = "p1" /\ batch = "replaced" /\ frame[1].success /\ AllResolvable) =>
    \A k \in DOMAIN frame[1].data : ~IsPlaceholder(frame[1].data[k])

(* C27, amended: when every placeholder of the template is resolvable, the *)
(* payload returned holds at every leaf that was a placeholder the value   *)
(* the name stands for, the extracted value as it is or the converted      *)
(* cell, and at every other leaf what the template holds; a leaf beginning *)
(* with `$` is found only where the value resolved is itself that string.  *)
C27_TokensReplacedByValues ==
  (impl = "p1" /\ batch = "replaced" /\ frame[1].success /\ AllResolvable) =>
    \A k \in DOMAIN config.payloadTemplate :
      /\ frame[1].data[k] =
           IF ~IsPlaceholder(config.payloadTemplate[k])
             THEN config.payloadTemplate[k]
           ELSE IF Get(extractedData[1], NameOf(config.payloadTemplate[k])) # Undef
             THEN extractedData[1][NameOf(config.payloadTemplate[k])]
           ELSE ExpectedCell(csvData[1][NameOf(config.payloadTemplate[k])].s)
      /\ (IsPlaceholder(config.payloadTemplate[k])
            /\ IsPlaceholder(frame[1].data[k])) =>
           frame[1].data[k] = LayeredValue(NameOf(config.payloadTemplate[k]))

C27_Witness ==
  /\ impl = "p1" /\ batch = "replaced" /\ frame[1].success /\ AllResolvable
  /\ csvData[1].cell = Str("$7")
  /\ frame[1].data.a = Str("$7")
  /\ frame[1].data.b = Str("$9")

(* C28: processing the rows of part_001 changes neither the configuration  *)
(* (the payload and endpoint templates of the steps) nor the value of any  *)
(* column of any row.                                                      *)
C28_InputsUnchanged ==
  [][impl = "p1" =>
       /\ config' = config
       /\ \A r \in Rows : \A c \in DOMAIN PrimaryRow(r) :
            csvData'[r][c] = PrimaryRow(r)[c]]_vars

(* The calls row r has issued for step i, and how many the step is to      *)
(* issue: one per row of the secondary table for a loop step of part_000,  *)
(* one otherwise.                                                          *)
CallsOf(r, i) == { m \in 1..Len(calls[r]) : calls[r][m].i = i }
CallsDue(i) ==
  IF impl = "p0" /\ Requests[i].loopOver THEN Len(loopData) ELSE 1

(* Step i of row r was executed: its condition, if the program has         *)
(* conditions, was met.                                                    *)
Executed(r, i) ==
  impl = "p0" =>
    \E k \in 1..Len(decisions[r]) : decisions[r][k].i = i /\ decisions[r][k].met

(* C29: in part_000 and part_001 no row requests the same step and         *)
(* secondary row twice, a step never issues more calls than it is due, a   *)
(* failed call included, and in a row that succeeded every executed step   *)
(* has issued exactly the calls it is due (the calls the operator refused  *)
(* at the prompt of part_000 set aside).                                   *)
C29_OneCallPerStep ==
  impl \in {"p0", "p1"} =>
    \A r \in Rows :
      /\ \A m, n \in 1..Len(calls[r]) :
           (calls[r][m].i = calls[r][n].i /\ calls[r][m].j = calls[r][n].j)
             => m = n
      /\ \A i \in 1..Len(Requests) :
           /\ Cardinality(CallsOf(r, i)) <= CallsDue(i)
           /\ \A m \in CallsOf(r, i) :
                IF impl = "p0" /\ Requests[i].loopOver
                  THEN calls[r][m].j \in 1..Len(loopData)
                ELSE calls[r][m].j = 0
           /\ (pc[r] = "succeeded" /\ Executed(r, i)
                 /\ (impl = "p0" => ~argv.interactive))
                => Cardinality(CallsOf(r, i)) = CallsDue(i)

C29_Witness ==
  /\ impl = "p0" /\ ~argv.interactive /\ Len(loopData) = 2
  /\ \E r \in Rows :
       /\ pc[r] = "succeeded"
       /\ Requests[1].loopOver
       /\ Cardinality(CallsOf(r, 1)) = 2 /\ Cardinality(CallsOf(r, 2)) = 1

(* C30: with a positive delay, part_001 and src/index.js await the delay   *)
(* once when a row has ended and another row follows, whether the row      *)
(* succeeded or failed, and await it at no other moment: not after the     *)
(* last row, not twice in a row.                                           *)
C30_DelayBetweenRows ==
  [][(impl \in {"p1", "p3"} /\ argv.delay > 0) =>
       /\ \A r \in Rows :
            (pc[r] \notin Terminal /\ pc'[r] \in Terminal) =>
              (batch' = "sleep" <=> r < Len(csvData))
       /\ (batch # "sleep" /\ batch' = "sleep") =>
            \E r \in Rows : pc[r] \notin Terminal /\ pc'[r] \in Terminal
       /\ batch = "sleep" => batch' # "sleep"]_vars

(* Row r awaits the answer to a repetition of a loop step that has         *)
(* extraction specs.                                                       *)
AwaitsRepetition(r) ==
  /\ pc[r] = "http" /\ frame[r].j >= 1
  /\ Requests[frame[r].i].loopOver
  /\ Requests[frame[r].i].extractFromResponse.kind # "none"

(* C31: when a repetition of a loop step of part_000 or part_002 is        *)
(* answered successfully, every field of the step's extraction specs holds *)
(* the value that this response gives for its path, whatever an earlier    *)
(* repetition wrote there; so after the last repetition the field holds    *)
(* the value of the last response.                                         *)
C31_LastRepetitionWins ==
  [][\A r \in Rows : \A response \in Responses :
       ( /\ impl \in {"p0", "p2"} /\ AwaitsRepetition(r) /\ response.ok
         /\ \/ HttpResponse0(r, response)
            \/ (r = Len(results) + 1 /\ HttpResponse2(response)) )
       => \A k \in 1..Len(Requests[frame[r].i].extractFromResponse.specs) :
            Get(extractedData'[r],
                Requests[frame[r].i].extractFromResponse.specs[k].field)
              = AtPath(response.data,
                       Requests[frame[r].i].extractFromResponse.specs[k].jsonPath)]_vars

(* The two operands of the evaluated condition as the function finds them, *)
(* before any conversion.                                                  *)
LeftOperand ==
  IF impl = "p0" THEN OperandValue(config.left, extractedData[1])
  ELSE Get(csvData[1], config.field)
RightOperand ==
  IF impl = "p0" THEN OperandValue(config.right, extractedData[1])
  ELSE config.value

(* C32: for >, >=, <, <= evaluateCondition returns the comparison of the   *)
(* two operands as numbers when both are numeric-looking (neither is NaN   *)
(* as a number), and otherwise the comparison of the operands as they are, *)
(* neither of them converted.                                              *)
C32_RelationalOperands ==
  (batch = "evaluated" /\ config.operator \in {">", ">=", "<", "<="}) =>
    decisions[1][1].met =
      IF ~IsNaN(LeftOperand) /\ ~IsNaN(RightOperand)
        THEN CompareWith(config.operator, ToNumber(LeftOperand),
                         ToNumber(RightOperand))
      ELSE CompareWith(config.operator, LeftOperand, RightOperand)

(* The text handed to the parser for a cell of the embedded-array column:  *)
(* the cell without the blanks around it, in brackets when it does not     *)
(* both begin with [ and end with ].                                       *)
Bracketed(s) ==
  IF StartsWith(Trim(s), "[") /\ EndsWith(Trim(s), "]") THEN Trim(s)
  ELSE "[" \o Trim(s) \o "]"

(* What the payload field is to hold for such a cell; filled says which   *)
(* cells count as having content.                                          *)
ExpectedArray(s, filled) ==
  IF ~filled THEN Null
  ELSE IF JsonArrayParses(Bracketed(s)) THEN Obj(Bracketed(s))
  ELSE Null

(* The call of replacePlaceholders of SpecFields has returned or thrown,   *)
(* and the placeholder of the embedded-array column is filled from the row. *)
ArrayCellReplaced ==
  /\ batch = "replaced"
  /\ "offeringProducts" \in DOMAIN csvData[1]
  /\ "offeringProducts" \notin DOMAIN extractedData[1]

(* The calls of row r for the request of SpecFields that takes the column. *)
ItemsCalls(r) ==
  { k \in 1..Len(calls[r]) : Requests[calls[r][k].i].name = "Items" }

(* No row of a run of processCSV has failed while a request was prepared,  *)
(* the requests without a valid endpoint set aside.                        *)
NoneFailedInPreparation ==
  (batch \notin {"call", "replaced"}) =>
    \A n \in 1..Len(errorLog) :
      IsConfigError(errorLog[n]) \/ ~PreparationFailed(errorLog[n])

(* C33 as stated: every cell of the embedded-array column that is not the  *)
(* empty string is put in brackets when it has none and parsed, the field  *)
(* holding the parsed array, or null when the parse fails; the row does    *)
(* not fail for it and its call is issued.                                 *)
C33_NonEmptyCellParsed ==
  /\ ArrayCellReplaced =>
       /\ frame[1].success
       /\ frame[1].data.items =
            ExpectedArray(csvData[1].offeringProducts.s,
                          csvData[1].offeringProducts.s # "")
  /\ NoneFailedInPreparation
  /\ \A r \in Rows : \A k \in ItemsCalls(r) :
       calls[r][k].data.items =
         ExpectedArray(csvData[r].offeringProducts.s,
                       csvData[r].offeringProducts.s # "")

(* C33, amended: the same for every cell that holds more than blanks; a    *)
(* cell that is empty or holds only blanks gives null without being        *)
(* parsed.                                                                 *)
C33_NonBlankCellParsed ==
  /\ ArrayCellReplaced =>
       /\ frame[1].success
       /\ frame[1].data.items =
            ExpectedArray(csvData[1].offeringProducts.s,
                          Trim(csvData[1].offeringProducts.s) # "")
  /\ NoneFailedInPreparation
  /\ \A r \in Rows : \A k \in ItemsCalls(r) :
       calls[r][k].data.items =
         ExpectedArray(csvData[r].offeringProducts.s,
                       Trim(csvData[r].offeringProducts.s) # "")

C33_Witness ==
  /\ batch = "done"
  /\ \E r \in Rows :
       /\ csvData[r].offeringProducts = Str("a,b")
       /\ pc[r] = "succeeded"
       /\ ItemsCalls(r) # {}
       /\ \A k \in ItemsCalls(r) : calls[r][k].data.items = Null

(* The positions of a URL template where a `$name` token begins: a `$`     *)
(* that no `$` precedes and that a word character follows.                 *)
TokenStarts(urlTemplate) ==
  { q \in 1..(Len(urlTemplate) - 1) :
      /\ Ch(urlTemplate, q) = "$"
      /\ (q = 1 \/ Ch(urlTemplate, q - 1) # "$")
      /\ IsWordChar(Ch(urlTemplate, q + 1)) }

TokenName(urlTemplate, q) ==
  SubSeq(urlTemplate, q + 1, NameEnd(urlTemplate, q + 1))

(* What position i of the template contributes to the URL when the tokens  *)
(* whose names are in resolved are replaced: the encoded value at the `$`  *)
(* of such a token, nothing at the characters of its name, and the         *)
(* character itself everywhere else.                                       *)
Piece(urlTemplate, i, dataContext, resolved, starts) ==
  IF i \in starts /\ TokenName(urlTemplate, i) \in resolved
    THEN encodeURIComponent(JsString(dataContext[TokenName(urlTemplate, i)]))
  ELSE IF \E q \in starts :
            /\ q < i /\ i <= NameEnd(urlTemplate, q + 1)
            /\ TokenName(urlTemplate, q) \in resolved
    THEN ""
  ELSE Ch(urlTemplate, i)

RECURSIVE Join(_, _)
Join(pieces, i) ==
  IF i > Len(pieces) THEN "" ELSE pieces[i] \o Join(pieces, i + 1)

ExpectedUrl(urlTemplate, dataContext, resolved, starts) ==
  Join([i \in 1..Len(urlTemplate) |->
          Piece(urlTemplate, i, dataContext, resolved, starts)], 1)

(* The URL for a template and the context of a step (the extracted values *)
(* over the row): every name the context holds is resolved, to null when   *)
(* that is what the extracted values hold for it.                          *)
ExpectedUrlOf(urlTemplate, dataContext) ==
  ExpectedUrl(urlTemplate, dataContext,
              { n \in DOMAIN dataContext : dataContext[n] # Undef },
              TokenStarts(urlTemplate))

(* C34: the URL of every call of part_001 is the endpoint template in use  *)
(* with every `$name` token whose name is resolved in the context of the   *)
(* step replaced by the percent-encoded string form of the resolved value, *)
(* and every other character, a `$$name` included, kept where it is.       *)
C34_UrlTokensEncoded ==
  impl = "p1" =>
    \A r \in Rows : \A k \in 1..Len(calls[r]) :
      calls[r][k].url =
        Str(ExpectedUrlOf(endpointTemplate(Requests[calls[r][k].i]).s,
                          Spread(csvData[r], calls[r][k].extracted)))

(* The walk of a dotted name through nested values, part by part: whether  *)
(* every part was there, and the value at the end of the path.             *)
RECURSIVE PathValue(_, _)
PathValue(value, parts) ==
  IF parts = <<>> THEN [found |-> TRUE, v |-> value]
  ELSE IF value.t # "object" \/ Head(parts) \notin DOMAIN Heap(value.s)
    THEN [found |-> FALSE, v |-> Undef]
  ELSE PathValue(Heap(value.s)[Head(parts)], Tail(parts))

Walked(name, ed) ==
  IF Head(Split(name, ".")) \notin DOMAIN ed THEN [found |-> FALSE, v |-> Undef]
  ELSE PathValue(ed[Head(Split(name, "."))], Tail(Split(name, ".")))

(* The flat lookup of a whole name: extracted values, then the row. *)
FlatLookup(name, row, ed) ==
  IF Get(ed, name) # Undef THEN ed[name]
  ELSE IF Get(row, name) # Undef THEN Coerce(row[name]).v
  ELSE Str("$" \o name)

(* The call of replacePlaceholders of SpecFields has returned or thrown. *)
DottedReplaced == batch = "replaced" /\ "deep" \in DOMAIN config.payloadTemplate

(* C35: replacePlaceholders of part_001 does not throw on a dotted name,   *)
(* and the leaf gets the value at the end of the walk through the nested   *)
(* extracted values when every part of the path is there, and what the     *)
(* flat lookup of the whole name gives (the extracted value, else the      *)
(* row's, else the placeholder itself) when a part is absent.              *)
C35_DottedWalk ==
  DottedReplaced =>
    /\ frame[1].success
    /\ \A key \in {"deep", "deeper", "far"} :
         frame[1].data[key] =
           IF Walked(NameOf(config.payloadTemplate[key]), extractedData[1]).found
             THEN Walked(NameOf(config.payloadTemplate[key]), extractedData[1]).v
           ELSE FlatLookup(NameOf(config.payloadTemplate[key]), csvData[1],
                           extractedData[1])

(* The value of a name in the context of a call: the extracted layer when  *)
(* the name is there, the row otherwise.                                   *)
LayerValue(name, row, ed) ==
  IF name \in DOMAIN ed /\ ed[name] # Undef THEN ed[name] ELSE Get(row, name)

(* C39: in every call of part_001 a name that is both a token of the       *)
(* endpoint and a placeholder of the payload is replaced in the URL        *)
(* exactly when it is replaced in the payload, and then the URL holds the  *)
(* string form of the value of the layer the payload took it from.         *)
C39_ResolversAgree ==
  impl = "p1" =>
    \A r \in Rows : \A k \in 1..Len(calls[r]) :
      calls[r][k].data # Undef =>
        \A key \in DOMAIN Requests[calls[r][k].i].payloadTemplate :
          ( /\ IsPlaceholder(Requests[calls[r][k].i].payloadTemplate[key])
            /\ NameOf(Requests[calls[r][k].i].payloadTemplate[key])
                 \in UrlTokens(endpointTemplate(Requests[calls[r][k].i]).s) )
          => /\ (calls[r][k].data[key]
                   # Requests[calls[r][k].i].payloadTemplate[key])
                  <=> ~Contains(calls[r][k].url.s,
                                Requests[calls[r][k].i].payloadTemplate[key].s)
             /\ (calls[r][k].data[key]
                   # Requests[calls[r][k].i].payloadTemplate[key])
                  => Contains(calls[r][k].url.s,
                       encodeURIComponent(JsString(
                         LayerValue(NameOf(Requests[calls[r][k].i].payloadTemplate[key]),
                                    csvData[r], calls[r][k].extracted))))

(* C38: in part_000, when the secondary table has no rows, a loop step     *)
(* makes no call and no failure is reported for it, and when its condition *)
(* lets it run the next step is considered at once with the extracted      *)
(* values the loop step found, or the row succeeds when the loop step is   *)
(* the last one.                                                           *)
C38_EmptyLoopIsPassedOver ==
  (impl = "p0" /\ Len(loopData) = 0) =>
    \A r \in Rows :
      /\ \A k \in 1..Len(calls[r]) : ~Requests[calls[r][k].i].loopOver
      /\ \A n \in 1..Len(errorLog) :
           errorLog[n].row = r => ~Requests[errorLog[n].step].loopOver
      /\ \A n \in 1..Len(decisions[r]) :
           (Requests[decisions[r][n].i].loopOver /\ decisions[r][n].met) =>
             IF decisions[r][n].i < Len(Requests)
               THEN /\ n < Len(decisions[r])
                    /\ decisions[r][n + 1].i = decisions[r][n].i + 1
                    /\ decisions[r][n + 1].extracted = decisions[r][n].extracted
             ELSE pc[r] = "succeeded" /\ extractedData[r] = decisions[r][n].extracted

C38_Witness ==
  /\ impl = "p0" /\ Len(loopData) = 0
  /\ \E r \in Rows :
       /\ pc[r] = "succeeded"
       /\ Requests[1].loopOver
       /\ Len(decisions[r]) = 2 /\ decisions[r][1].met
       /\ Len(calls[r]) = 1 /\ calls[r][1].i = 2

(* C37: when processCSV of part_000 reports the batch complete, the        *)
(* results hold one outcome for every row of the primary table and no row  *)
(* is awaiting a call, a delay or a prompt.                                *)
C37_CompleteAfterAllRows ==
  (impl = "p0" /\ batch = "ended") =>
    /\ Len(results) = Len(csvData)
    /\ \A r \in Rows :
         /\ pc[r] \in Terminal
         /\ \E n \in 1..Len(results) : results[n].row = r

(* The batch has come to its end: part_000 has seen the end of the stream, *)
(* part_001 has printed its summary, returned for want of rows or stopped  *)
(* on its configuration.                                                   *)
BatchOver ==
  IF impl = "p0" THEN batch = "ended" ELSE batch \in {"done", "returned", "fatal"}

====
